---- MODULE Spec2Model ----
(***************************************************************************)
(* A model of the gas-estimation library's cached estimators:              *)
(*   - BlockNative and NativeGasEstimator: a constructor that populates a  *)
(*     shared snapshot cell, a background refresher task, reader calls and  *)
(*     Drop (specification Spec);                                          *)
(*   - GasNowWebSocketGasStation: the reconnecting receive task, the watch  *)
(*     channel and its readers (specifications SpecWS, SpecWSFair and      *)
(*     SpecWSWait);                                                        *)
(*   - the priority aggregator (SpecPriority);                             *)
(*   - GasNowGasStation and its rate-limiting cache (SpecGasNow);          *)
(*   - suggest_fee of the native oracle and the estimates read from a      *)
(*     stored list or a vendor's response (SpecEstimate);                  *)
(*   - the pure operations of gas_price.rs (SpecGasPrice).                 *)
(* Time is a discrete clock in seconds.  f64 values are modelled as exact  *)
(* integers or rationals.                                                  *)
(***************************************************************************)
EXTENDS Integers, Sequences, FiniteSets, TLC

(***************************************************************************)
(* Bounds of the model.                                                    *)
(***************************************************************************)
\* The clock advances in ticks of TimeStep seconds, up to MaxTime.
TimeStep == 10
MaxTime == 70
\* Background fetches one refresher task may issue.
MaxFetches == 2

(***************************************************************************)
(* Program constants.                                                      *)
(***************************************************************************)
BN_TIME_PER_BLOCK == 15
BN_RATE_LIMIT == 10
BN_CACHED_RESPONSE_VALIDITY == 60
NATIVE_CACHED_RESPONSE_VALIDITY == 60
NATIVE_RATE_LIMIT == 5
GWEI_TO_WEI == 1000000000
bump_cap_coefficient == 2

Kinds == {"BlockNative", "Native"}

RATE_LIMIT(k) == IF k = "BlockNative" THEN BN_RATE_LIMIT ELSE NATIVE_RATE_LIMIT

CACHED_RESPONSE_VALIDITY(k) ==
    IF k = "BlockNative" THEN BN_CACHED_RESPONSE_VALIDITY
    ELSE NATIVE_CACHED_RESPONSE_VALIDITY

(***************************************************************************)
(* Exact rationals [n, d] with d > 0, kept in lowest terms.                *)
(***************************************************************************)
Abs(i) == IF i < 0 THEN -i ELSE i

RECURSIVE Gcd(_, _)
Gcd(a, b) == IF b = 0 THEN a ELSE Gcd(b, a % b)

Rat(n, d) ==
    LET s == IF d < 0 THEN -1 ELSE 1
        g == Gcd(Abs(n), Abs(d))
    IN  [n |-> (s * n) \div g, d |-> (s * d) \div g]

RInt(i) == [n |-> i, d |-> 1]
RLeq(a, b) == a.n * b.d <= b.n * a.d
RLt(a, b) == a.n * b.d < b.n * a.d
RAdd(a, b) == Rat(a.n * b.d + b.n * a.d, a.d * b.d)
RSub(a, b) == Rat(a.n * b.d - b.n * a.d, a.d * b.d)
RMul(a, b) == Rat(a.n * b.n, a.d * b.d)
RDiv(a, b) == Rat(a.n * b.d, a.d * b.n)

(***************************************************************************)
(* linear_interpolation::interpolate.  Points are <<x, y>> pairs of        *)
(* rationals, sorted by x ascending; fewer than two points is refused by   *)
(* the conversion of the slice (HasTwoPoints).                             *)
(***************************************************************************)
HasTwoPoints(pts) == Len(pts) >= 2

interpolate(x, pts) ==
    IF RLeq(x, pts[1][1]) THEN pts[1][2]
    ELSE IF RLeq(pts[Len(pts)][1], x) THEN pts[Len(pts)][2]
    ELSE LET i == CHOOSE j \in 1..(Len(pts) - 1) :
                      /\ RLeq(pts[j][1], x)
                      /\ RLt(x, pts[j + 1][1])
             x0 == pts[i][1]
             y0 == pts[i][2]
             x1 == pts[i + 1][1]
             y1 == pts[i + 1][2]
         IN  RAdd(y0, RMul(RSub(y1, y0), RDiv(RSub(x, x0), RSub(x1, x0))))

(***************************************************************************)
(* Results of estimate_with_limits: Ok(price) or an error.                 *)
(***************************************************************************)
NoPrice == [legacy |-> RInt(0), eip1559 |-> <<>>]
Ok(price) == [tag |-> "Ok", err |-> "", price |-> price]
Err(e) == [tag |-> "Err", err |-> e, price |-> NoPrice]

\* Option<T>: <<>> is None, <<v>> is Some(v).
Some(v) == <<v>>
IsSome(o) == Len(o) = 1
IsNone(o) == Len(o) = 0

(***************************************************************************)
(* Staleness of a snapshot: Instant::now().saturating_duration_since(time) *)
(* > CACHED_RESPONSE_VALIDITY.                                             *)
(***************************************************************************)
\* A distance between instants that is also positive when `later` is the
\* earlier one.
saturating_duration_since_Abs(later, earlier) == Abs(later - earlier)

saturating_duration_since(later, earlier) ==
    IF later >= earlier THEN later - earlier ELSE 0

\* A staleness check that already rejects an age of exactly the validity.
IsStale_AtValidity(k, instant_now, time) ==
    saturating_duration_since(instant_now, time) >= CACHED_RESPONSE_VALIDITY(k)

IsStale(k, instant_now, time) ==
    saturating_duration_since(instant_now, time) > CACHED_RESPONSE_VALIDITY(k)

(***************************************************************************)
(* BlockNative: the vendor response and its conversion from gwei to wei.   *)
(***************************************************************************)
EstimatedPrice(c, p, prio, fee) ==
    [confidence |-> c, price |-> p,
     max_priority_fee_per_gas |-> prio, max_fee_per_gas |-> fee]

EstimatedPrice_gwei_to_wei(e) ==
    [confidence |-> e.confidence,
     price |-> e.price * GWEI_TO_WEI,
     max_priority_fee_per_gas |-> e.max_priority_fee_per_gas * GWEI_TO_WEI,
     max_fee_per_gas |-> e.max_fee_per_gas * GWEI_TO_WEI]

\* A conversion that leaves the block's base fee in gwei.
BlockPrice_gwei_to_wei_KeepsBaseFee(b) ==
    [base_fee_per_gas |-> b.base_fee_per_gas,
     estimated_prices |->
        [i \in 1..Len(b.estimated_prices) |->
            EstimatedPrice_gwei_to_wei(b.estimated_prices[i])]]

BlockPrice_gwei_to_wei(b) ==
    [base_fee_per_gas |-> b.base_fee_per_gas * GWEI_TO_WEI,
     estimated_prices |->
        [i \in 1..Len(b.estimated_prices) |->
            EstimatedPrice_gwei_to_wei(b.estimated_prices[i])]]

Response_gwei_to_wei(r) ==
    [block_prices |->
        [i \in 1..Len(r.block_prices) |-> BlockPrice_gwei_to_wei(r.block_prices[i])]]

\* sort_by(|a, b| b.confidence.partial_cmp(&a.confidence)): a stable sort,
\* descending by confidence.
RECURSIVE InsertByConfidence(_, _)
InsertByConfidence(e, sorted) ==
    IF sorted = <<>> THEN <<e>>
    ELSE IF Head(sorted).confidence >= e.confidence
         THEN <<Head(sorted)>> \o InsertByConfidence(e, Tail(sorted))
         ELSE <<e>> \o sorted

\* Entries left in the vendor's order.
SortByConfidenceDesc_Not(es) == es

RECURSIVE SortByConfidenceDesc(_)
SortByConfidenceDesc(es) ==
    IF es = <<>> THEN <<>>
    ELSE InsertByConfidence(es[Len(es)], SortByConfidenceDesc(SubSeq(es, 1, Len(es) - 1)))

\* A read path that takes the last block of the response.
BN_estimate_with_limits_LastBlock(time_limit, cached, instant_now) ==
    IF IsStale("BlockNative", instant_now, cached.time)
    THEN Err("Stale")
    ELSE IF cached.data.block_prices = <<>>
    THEN Err("NotReady")
    ELSE LET block == cached.data.block_prices[Len(cached.data.block_prices)]
             sorted == SortByConfidenceDesc(block.estimated_prices)
             x(e) == Rat(BN_TIME_PER_BLOCK * 100, e.confidence)
             gas_price_points ==
                 [i \in 1..Len(sorted) |-> <<x(sorted[i]), RInt(sorted[i].price)>>]
             max_fee_per_gas_points ==
                 [i \in 1..Len(sorted) |-> <<x(sorted[i]), RInt(sorted[i].max_fee_per_gas)>>]
             max_priority_fee_per_gas_points ==
                 [i \in 1..Len(sorted) |->
                     <<x(sorted[i]), RInt(sorted[i].max_priority_fee_per_gas)>>]
         IN  IF ~HasTwoPoints(gas_price_points)
             THEN Err("InvalidInput")
             ELSE Ok([legacy |-> interpolate(RInt(time_limit), gas_price_points),
                      eip1559 |-> Some(
                         [max_fee_per_gas |->
                              interpolate(RInt(time_limit), max_fee_per_gas_points),
                          max_priority_fee_per_gas |->
                              interpolate(RInt(time_limit), max_priority_fee_per_gas_points),
                          base_fee_per_gas |-> RInt(block.base_fee_per_gas)])])

\* The free function estimate_with_limits of blocknative.rs, on a cloned
\* snapshot, with instant_now the value Instant::now() returns in it.
BN_estimate_with_limits(time_limit, cached, instant_now) ==
    IF IsStale("BlockNative", instant_now, cached.time)
    THEN Err("Stale")
    ELSE IF cached.data.block_prices = <<>>
    THEN Err("NotReady")
    ELSE LET block == cached.data.block_prices[1]
             sorted == SortByConfidenceDesc(block.estimated_prices)
             x(e) == Rat(BN_TIME_PER_BLOCK * 100, e.confidence)
             gas_price_points ==
                 [i \in 1..Len(sorted) |-> <<x(sorted[i]), RInt(sorted[i].price)>>]
             max_fee_per_gas_points ==
                 [i \in 1..Len(sorted) |-> <<x(sorted[i]), RInt(sorted[i].max_fee_per_gas)>>]
             max_priority_fee_per_gas_points ==
                 [i \in 1..Len(sorted) |->
                     <<x(sorted[i]), RInt(sorted[i].max_priority_fee_per_gas)>>]
         IN  IF ~HasTwoPoints(gas_price_points)
             THEN Err("InvalidInput")
             ELSE Ok([legacy |-> interpolate(RInt(time_limit), gas_price_points),
                      eip1559 |-> Some(
                         [max_fee_per_gas |->
                              interpolate(RInt(time_limit), max_fee_per_gas_points),
                          max_priority_fee_per_gas |->
                              interpolate(RInt(time_limit), max_priority_fee_per_gas_points),
                          base_fee_per_gas |-> RInt(block.base_fee_per_gas)])])

(***************************************************************************)
(* NativeGasEstimator: the suggestion list, bump_cap and the read path.    *)
(***************************************************************************)
GasPrice1559(base, fee, prio) ==
    [base_fee_per_gas |-> base, max_fee_per_gas |-> fee,
     max_priority_fee_per_gas |-> prio]

GasPrice1559_bump_cap(g, factor) ==
    [g EXCEPT !.max_fee_per_gas = g.max_fee_per_gas * factor]

EstimatedGasPrice_bump_cap(p, factor) ==
    [legacy |-> p.legacy * factor,
     eip1559 |-> [i \in 1..Len(p.eip1559) |-> GasPrice1559_bump_cap(p.eip1559[i], factor)]]

\* fees.into_iter().map(|(t, g)| (t, g.bump_cap(params.bump_cap_coefficient)))
BumpFees(fees) ==
    [i \in 1..Len(fees) |->
        <<fees[i][1], EstimatedGasPrice_bump_cap(fees[i][2], bump_cap_coefficient)>>]

\* eip1559.unwrap_or_default()
unwrap_or_default(o) == IF IsSome(o) THEN o[1] ELSE GasPrice1559(0, 0, 0)

\* A read path that returns the first entry whatever the time limit is.
Native_estimate_nonempty_First(time_limit, cached) ==
    IF IsNone(cached.data[1][2].eip1559)
    THEN Err("NoEip1559")
    ELSE IF Len(cached.data) < 2
    THEN Err("InvalidInput")
    ELSE LET first == cached.data[1][2].eip1559[1]
         IN  Ok([legacy |-> RInt(0),
                 eip1559 |-> Some(
                    [max_fee_per_gas |-> RInt(first.max_fee_per_gas),
                     max_priority_fee_per_gas |-> RInt(first.max_priority_fee_per_gas),
                     base_fee_per_gas |-> RInt(first.base_fee_per_gas)])])

\* A read path that interpolates over a single point as well.
Native_estimate_nonempty_OnePoint(time_limit, cached) ==
    LET max_fee_per_gas_points ==
            [i \in 1..Len(cached.data) |->
                <<RInt(cached.data[i][1]),
                  RInt(unwrap_or_default(cached.data[i][2].eip1559).max_fee_per_gas)>>]
        max_priority_fee_per_gas_points ==
            [i \in 1..Len(cached.data) |->
                <<RInt(cached.data[i][1]),
                  RInt(unwrap_or_default(cached.data[i][2].eip1559).max_priority_fee_per_gas)>>]
    IN  IF IsNone(cached.data[1][2].eip1559)
        THEN Err("NoEip1559")
        ELSE IF max_fee_per_gas_points = <<>>
        THEN Err("InvalidInput")
        ELSE Ok([legacy |-> RInt(0),
                 eip1559 |-> Some(
                    [max_fee_per_gas |->
                         interpolate(RInt(time_limit), max_fee_per_gas_points),
                     max_priority_fee_per_gas |->
                         interpolate(RInt(time_limit), max_priority_fee_per_gas_points),
                     base_fee_per_gas |->
                         RInt(cached.data[1][2].eip1559[1].base_fee_per_gas)])])

\* The free function estimate_with_limits of nativegasestimator.rs: what it
\* does with a snapshot that is fresh and not empty.
Native_estimate_nonempty(time_limit, cached) ==
    LET max_fee_per_gas_points ==
            [i \in 1..Len(cached.data) |->
                <<RInt(cached.data[i][1]),
                  RInt(unwrap_or_default(cached.data[i][2].eip1559).max_fee_per_gas)>>]
        max_priority_fee_per_gas_points ==
            [i \in 1..Len(cached.data) |->
                <<RInt(cached.data[i][1]),
                  RInt(unwrap_or_default(cached.data[i][2].eip1559).max_priority_fee_per_gas)>>]
    IN  IF IsNone(cached.data[1][2].eip1559)
        THEN Err("NoEip1559")
        ELSE IF ~HasTwoPoints(max_fee_per_gas_points)
        THEN Err("InvalidInput")
        ELSE Ok([legacy |-> RInt(0),
                 eip1559 |-> Some(
                    [max_fee_per_gas |->
                         interpolate(RInt(time_limit), max_fee_per_gas_points),
                     max_priority_fee_per_gas |->
                         interpolate(RInt(time_limit), max_priority_fee_per_gas_points),
                     base_fee_per_gas |->
                         RInt(cached.data[1][2].eip1559[1].base_fee_per_gas)])])

\* A read path that answers an empty, fresh snapshot with the default price.
Native_estimate_with_limits_DefaultOnEmpty(time_limit, cached, instant_now) ==
    IF IsStale("Native", instant_now, cached.time)
    THEN Err("Stale")
    ELSE IF cached.data = <<>>
    THEN Ok(NoPrice)
    ELSE Native_estimate_nonempty(time_limit, cached)

\* The free function estimate_with_limits of nativegasestimator.rs.
Native_estimate_with_limits(time_limit, cached, instant_now) ==
    IF IsStale("Native", instant_now, cached.time)
    THEN Err("Stale")
    ELSE IF cached.data = <<>>
    THEN Err("NotReady")
    ELSE Native_estimate_nonempty(time_limit, cached)

estimate_with_limits(k, time_limit, cached, instant_now) ==
    IF k = "BlockNative"
    THEN BN_estimate_with_limits(time_limit, cached, instant_now)
    ELSE Native_estimate_with_limits(time_limit, cached, instant_now)

\* CachedResponse::default(): the current instant and no data.
DefaultData(k) == IF k = "BlockNative" THEN [block_prices |-> <<>>] ELSE <<>>
DefaultCachedResponse(k, instant_now) == [time |-> instant_now, data |-> DefaultData(k)]

\* The number of entries a snapshot holds: blocks of a BlockNative response,
\* suggestions of a native list.
Entries(k, data) == IF k = "BlockNative" THEN Len(data.block_prices) ELSE Len(data)

(***************************************************************************)
(* What the upstream can answer.  A BlockNative fetch returns a Response   *)
(* in gwei; a native refresh returns the list suggest_fee computes.        *)
(***************************************************************************)
BnNoBlocks == [block_prices |-> <<>>]
BnOneEntry ==
    [block_prices |->
        << [estimated_prices |-> << EstimatedPrice(99, 2, 1, 2) >>,
            base_fee_per_gas |-> 1] >>]
BnTwoEntries ==
    [block_prices |->
        << [estimated_prices |-> << EstimatedPrice(70, 1, 1, 2),
                                    EstimatedPrice(99, 2, 1, 2) >>,
            base_fee_per_gas |-> 1] >>]

NativeNoFees == <<>>
NativeOneFee == << <<1, [legacy |-> 0, eip1559 |-> Some(GasPrice1559(7, 12, 3))]>> >>
NativeTwoFees ==
    << <<1, [legacy |-> 0, eip1559 |-> Some(GasPrice1559(7, 12, 3))]>>,
       <<2, [legacy |-> 0, eip1559 |-> Some(GasPrice1559(7, 9, 2))]>> >>

Upstream(k) ==
    IF k = "BlockNative" THEN {BnNoBlocks, BnOneEntry, BnTwoEntries}
    ELSE {NativeNoFees, NativeOneFee, NativeTwoFees}

\* What the constructor and the refresher store for an upstream answer.
Stored(k, response) ==
    IF k = "BlockNative" THEN Response_gwei_to_wei(response) ELSE BumpFees(response)

TimeLimits == {10, 30}

(***************************************************************************)
(* State of one estimator (BlockNative or NativeGasEstimator).             *)
(***************************************************************************)
VARIABLES
    kind,             \* which estimator this is
    now,              \* the clock, in seconds
    est,              \* "constructing" | "alive" | "failed" | "dropped"
                      \*   ("none": not constructed)
    cached_response,  \* the shared cell: [time, data]
    owners,           \* who holds a reference to the cell
    lock,             \* the cell's mutex: "none" | "task" | "reader"
    t_pc,             \* the refresher task's position
    t_wake,           \* the deadline of its sleep
    t_new,            \* the CachedResponse it is about to store
    abort,            \* handle.abort() has been called
    fetches,          \* background fetches issued
    r_pc,             \* the reader call's position
    r_tl,             \* its time_limit
    r_clone,          \* its clone of the cell
    r_result,         \* what it returns
    r_now,            \* the Instant::now() of its staleness check
    writes,           \* history: every CachedResponse stored in the cell
    initial,          \* history: the CachedResponse the constructor stored
    bg_ok,            \* history: some background fetch succeeded
    failed,           \* history: background fetches that failed
    late,             \* history: what the task did after the drop
    ws_pc,            \* receive_forever: "connecting" | "streaming" |
                      \*   "waiting" | "exited" ("none": not spawned)
    ws_deadline,      \* when its pending timeout or sleep elapses
    ws_value,         \* the watch channel's value: Option<(Instant, ResponseData)>
    ws_rx,            \* receivers alive (the station and its clones)
    ws_made,          \* receivers ever created
    ws_report,        \* the error the task's last step reported ("": none)
    ws_read,          \* the last estimate_with_limits call: [tl, at, res]
    ws_last,          \* history: the last update stored in the channel
    ws_ended,         \* history: when and how the last connection ended
    ws_exit_from,     \* history: where the task was when it exited
    ws_changed,       \* the waiter's receiver has not seen the channel's
                      \*   latest version
    ws_w_pc,          \* wait_for_first_update: "idle" | "called" | "waiting" |
                      \*   "returned" | "panicked"
    ws_w_waited,      \* history: the call had to await changed()
    pr_pc,            \* the priority aggregator's call: "idle" | "next" |
                      \*   "querying" | "done"
    pr_n,             \* how many children it holds
    pr_i,             \* the child it is at (1-based)
    pr_log,           \* history: what each queried child returned, in order
    pr_result,        \* what the call returned
    gn_cache,         \* GasNowGasStation.last_response: Option<CachedResponse>
    gn_lock,          \* the call holding last_response's async mutex, or 0
    gn_pc,            \* per call: "idle" | "waiting" | "fetching" | "returned"
    gn_now,           \* per call: the `now` it was given
    gn_seen,          \* history, per call: the cache as it found it
    gn_nfetch,        \* history, per call: fetches it has invoked
    gn_ret,           \* per call: what it returned
    gn_fetched_at,    \* history: when the last two upstream fetches were made
    ex_in,            \* what an estimator got from upstream: a fee history and
                      \*   rewards (native oracle) or a vendor's response
    ex_out,           \* Option: what its estimate_with_limits returned
    nat_pc,           \* suggest_fee: "idle" | "loop" | "done" | "stored" | "failed"
    nat_fees,         \* suggest_fee: base_fee after the carry-forward, and order
    nat_time_factor,  \* suggest_fee: time_factor
    nat_max_base_fee, \* suggest_fee: max_base_fee
    nat_result,       \* suggest_fee: result
    nat_cached,       \* the list NativeGasEstimator stores
    gp_price,         \* an EstimatedGasPrice
    gp_cap,           \* the argument of limit_cap
    gp_out,           \* Option: what limit_cap applied to gp_price gave
    gp_read,          \* Option: what cap(), tip() or effective_gas_price() read
    gp_factor,        \* the argument of bump
    gp_bumped,        \* the results of bump(gp_factor).ceil(), applied in turn
    cr,               \* collect_rewards: its position and its locals ptr,
                      \*   need_blocks, block_count and rewards
    cr_asked,         \* history: the fee_history calls collect_rewards made,
                      \*   and how many blocks each was answered for
    fn_in,            \* the arguments of a function of nativegasestimator.rs
    fn_out            \* what the function returned for them, call by call

vars == <<kind, now, est, cached_response, owners, lock, t_pc, t_wake, t_new,
          abort, fetches, r_pc, r_tl, r_clone, r_result, r_now, writes, initial,
          bg_ok, failed, late, ws_pc, ws_deadline, ws_value, ws_rx, ws_made,
          ws_report, ws_read, ws_last, ws_ended, ws_exit_from, ws_changed,
          ws_w_pc, ws_w_waited, pr_pc, pr_n, pr_i, pr_log, pr_result,
          gn_cache, gn_lock, gn_pc, gn_now, gn_seen, gn_nfetch, gn_ret,
          gn_fetched_at, ex_in, ex_out, nat_pc, nat_fees, nat_time_factor,
          nat_max_base_fee, nat_result, nat_cached, gp_price, gp_cap, gp_out,
          gp_read, gp_factor, gp_bumped, cr, cr_asked, fn_in, fn_out>>

readerVars == <<r_pc, r_tl, r_clone, r_result, r_now>>
taskVars == <<t_pc, t_wake, t_new, fetches>>
histVars == <<writes, initial, bg_ok, failed, late>>
refresherVars == <<kind, est, cached_response, owners, lock, abort, taskVars,
                   readerVars, histVars>>
waitVars == <<ws_changed, ws_w_pc, ws_w_waited>>
wsVars == <<ws_pc, ws_deadline, ws_value, ws_rx, ws_made, ws_report, ws_read,
            ws_last, ws_ended, ws_exit_from, waitVars>>

prVars == <<pr_pc, pr_n, pr_i, pr_log, pr_result>>

\* The variables of the components other than the refreshing estimators and
\* the WebSocket station.
gnVars == <<gn_cache, gn_lock, gn_pc, gn_now, gn_seen, gn_nfetch, gn_ret,
           gn_fetched_at>>
natVars == <<nat_pc, nat_fees, nat_time_factor, nat_max_base_fee, nat_result,
            nat_cached>>
exVars == <<ex_in, ex_out, natVars>>
gpVars == <<gp_price, gp_cap, gp_out, gp_read, gp_factor, gp_bumped>>
crVars == <<cr, cr_asked>>
fnVars == <<fn_in, fn_out>>
restVars == <<prVars, gnVars, exVars, gpVars, crVars, fnVars>>

NoResult == Err("")
NoResponse == [time |-> 0, data |-> <<>>]

\* new(): the cell is created with CachedResponse::default() and the first
\* fetch is in flight.
NoRead == [tl |-> 0, at |-> 0, res |-> NoResult]

\* No GasNowWebSocketGasStation has been constructed.
WSIdle ==
    /\ ws_pc = "none"
    /\ ws_deadline = 0
    /\ ws_value = <<>>
    /\ ws_rx = 0
    /\ ws_made = 0
    /\ ws_report = ""
    /\ ws_read = NoRead
    /\ ws_last = <<>>
    /\ ws_ended = <<>>
    /\ ws_exit_from = ""
    /\ ws_changed = FALSE
    /\ ws_w_pc = "idle"
    /\ ws_w_waited = FALSE

\* No call of the priority aggregator is in progress.
PrIdle ==
    /\ pr_pc = "idle"
    /\ pr_n = 0
    /\ pr_i = 0
    /\ pr_log = <<>>
    /\ pr_result = NoResult

\* The calls of estimate_with_limits made on one GasNowGasStation.
MaxCallers == 3
Callers == 1..MaxCallers

\* GasNowGasStation::new: an empty cache, nobody has called.
GnIdle ==
    /\ gn_cache = <<>>
    /\ gn_lock = 0
    /\ gn_pc = [c \in Callers |-> "idle"]
    /\ gn_now = [c \in Callers |-> 0]
    /\ gn_seen = [c \in Callers |-> <<>>]
    /\ gn_nfetch = [c \in Callers |-> 0]
    /\ gn_ret = [c \in Callers |-> <<>>]
    /\ gn_fetched_at = <<>>

\* suggest_fee has not been called.
NatIdle ==
    /\ nat_pc = "idle"
    /\ nat_fees = [base_fee |-> <<>>, order |-> <<>>]
    /\ nat_time_factor = 0
    /\ nat_max_base_fee = 0
    /\ nat_result = <<>>
    /\ nat_cached = <<>>

\* No estimator has been given anything.
ExIdle ==
    /\ ex_in = [kind |-> "none"]
    /\ ex_out = <<>>
    /\ NatIdle

\* No operation of gas_price.rs is being applied.
GpIdle ==
    /\ gp_price = NoPrice
    /\ gp_cap = 0
    /\ gp_out = <<>>
    /\ gp_read = <<>>
    /\ gp_factor = 0
    /\ gp_bumped = <<>>

\* collect_rewards has not been called.
CrIdle ==
    /\ cr = [pc |-> "idle", ptr |-> 0, need_blocks |-> 0, block_count |-> 0,
             rewards |-> <<>>]
    /\ cr_asked = <<>>

\* No function of nativegasestimator.rs is being applied.
FnIdle ==
    /\ fn_in = [fn |-> "none"]
    /\ fn_out = <<>>

RestIdle == PrIdle /\ GnIdle /\ ExIdle /\ GpIdle /\ CrIdle /\ FnIdle

Init ==
    /\ WSIdle
    /\ RestIdle
    /\ kind \in Kinds
    /\ now = 0
    /\ est = "constructing"
    /\ cached_response = DefaultCachedResponse(kind, 0)
    /\ owners = {"constructor"}
    /\ lock = "none"
    /\ t_pc = "none"
    /\ t_wake = 0
    /\ t_new = NoResponse
    /\ abort = FALSE
    /\ fetches = 0
    /\ r_pc = "idle"
    /\ r_tl = 0
    /\ r_clone = NoResponse
    /\ r_result = NoResult
    /\ r_now = 0
    /\ writes = {}
    /\ initial = <<>>
    /\ bg_ok = FALSE
    /\ failed = 0
    /\ late = [fetches |-> 0, writes |-> 0]

Tick ==
    /\ now + TimeStep <= MaxTime
    /\ now' = now + TimeStep
    /\ UNCHANGED <<wsVars, restVars>>
    /\ UNCHANGED <<kind, est, cached_response, owners, lock, abort>>
    /\ UNCHANGED <<taskVars, readerVars, histVars>>

(***************************************************************************)
(* The constructor.                                                        *)
(***************************************************************************)
\* The first fetch succeeds: store it, spawn the refresher (whose loop
\* starts with sleep(RATE_LIMIT)), return Ok(Self).
CtorFetchOk(response) ==
    /\ est = "constructing"
    /\ cached_response' = [time |-> now, data |-> Stored(kind, response)]
    /\ writes' = writes \cup {cached_response'}
    /\ initial' = Some(cached_response')
    /\ t_pc' = "sleeping"
    /\ t_wake' = now + RATE_LIMIT(kind)
    /\ owners' = {"estimator", "task"}
    /\ est' = "alive"
    /\ UNCHANGED <<wsVars, restVars>>
    /\ UNCHANGED <<kind, now, lock, t_new, abort, fetches, bg_ok, failed, late>>
    /\ UNCHANGED readerVars

\* A constructor that spawns the refresher although the first fetch failed.
CtorFetchErr_Spawns ==
    /\ est = "constructing"
    /\ est' = "failed"
    /\ t_pc' = "sleeping"
    /\ t_wake' = now + RATE_LIMIT(kind)
    /\ owners' = {"task"}
    /\ UNCHANGED <<wsVars, restVars>>
    /\ UNCHANGED <<kind, now, cached_response, lock, abort, t_new, fetches>>
    /\ UNCHANGED <<readerVars, histVars>>

\* The first fetch fails: return Err, nothing is spawned.
CtorFetchErr ==
    /\ est = "constructing"
    /\ est' = "failed"
    /\ owners' = {}
    /\ UNCHANGED <<wsVars, restVars>>
    /\ UNCHANGED <<kind, now, cached_response, lock, abort>>
    /\ UNCHANGED <<taskVars, readerVars, histVars>>

(***************************************************************************)
(* The refresher task: loop { sleep(RATE_LIMIT); fetch; store on Ok }.     *)
(* A poll of the task runs from one await to the next; abort() takes       *)
(* effect when the task is at an await.                                    *)
(***************************************************************************)
AtAwait(pc) == pc \in {"sleeping", "fetching"}

\* Where the task is after reaching an await.
Suspend(pc) == IF abort THEN "cancelled" ELSE pc

\* A cell without mutual exclusion.
LockFree_NoExclusion == TRUE

LockFree == lock = "none"

\* An Err arm that renews the snapshot's timestamp.
OnFetchErr_Touch(cell, instant_now) == [cell EXCEPT !.time = instant_now]

\* The Err arm of the refresher's match: the error is logged and the cell is
\* left as it is.
OnFetchErr(cell, instant_now) == cell

\* The sleep has elapsed: the task is polled again.
TaskWake ==
    /\ t_pc = "sleeping"
    /\ ~abort
    /\ now >= t_wake
    /\ fetches < MaxFetches
    /\ t_pc' = "woken"
    /\ t_wake' = 0
    /\ UNCHANGED <<wsVars, restVars>>
    /\ UNCHANGED <<kind, now, est, cached_response, owners, lock, t_new, abort, fetches>>
    /\ UNCHANGED <<readerVars, histVars>>

\* request.gas_price() / suggest_fee(): the fetch is issued.  It answers at
\* once ("ready") or the task awaits it ("fetching").
TaskIssueFetch ==
    /\ t_pc = "woken"
    /\ fetches' = fetches + 1
    /\ t_pc' \in {"ready", Suspend("fetching")}
    /\ owners' = IF t_pc' = "cancelled" THEN owners \ {"task"} ELSE owners
    /\ late' = IF est = "dropped" THEN [late EXCEPT !.fetches = @ + 1] ELSE late
    /\ UNCHANGED <<wsVars, restVars>>
    /\ UNCHANGED <<kind, now, est, cached_response, lock, t_wake, t_new, abort>>
    /\ UNCHANGED <<readerVars, writes, initial, bg_ok, failed>>

\* The fetch has an answer for the task: at once, or it wakes the task that
\* awaits it (an aborted task is not polled again).
FetchAnswers == t_pc = "ready" \/ (t_pc = "fetching" /\ ~abort)

\* Err(err) => tracing::warn!(..): back to the top of the loop.
TaskFetchErr ==
    /\ FetchAnswers
    /\ failed' = failed + 1
    /\ cached_response' = OnFetchErr(cached_response, now)
    /\ t_pc' = Suspend("sleeping")
    /\ t_wake' = IF abort THEN 0 ELSE now + RATE_LIMIT(kind)
    /\ owners' = IF abort THEN owners \ {"task"} ELSE owners
    /\ UNCHANGED <<wsVars, restVars>>
    /\ UNCHANGED <<kind, now, est, lock, t_new, abort, fetches>>
    /\ UNCHANGED <<readerVars, writes, initial, bg_ok, late>>

\* Ok(response): the new CachedResponse { time: Instant::now(), data } is built.
TaskFetchOk(response) ==
    /\ FetchAnswers
    /\ bg_ok' = TRUE
    /\ t_new' = [time |-> now, data |-> Stored(kind, response)]
    /\ t_pc' = "got"
    /\ UNCHANGED <<wsVars, restVars>>
    /\ UNCHANGED <<kind, now, est, cached_response, owners, lock, t_wake, abort, fetches>>
    /\ UNCHANGED <<readerVars, writes, initial, failed, late>>

\* *cell.lock().unwrap() = new: the lock is taken and the value moved in,
\* field by field.
TaskWriteBegin ==
    /\ t_pc = "got"
    /\ LockFree
    /\ lock' = "task"
    /\ cached_response' = [cached_response EXCEPT !.time = t_new.time]
    /\ t_pc' = "writing"
    /\ UNCHANGED <<wsVars, restVars>>
    /\ UNCHANGED <<kind, now, est, owners, t_wake, t_new, abort, fetches>>
    /\ UNCHANGED <<readerVars, histVars>>

\* The write completes, the guard is dropped and the loop sleeps again.
TaskWriteEnd ==
    /\ t_pc = "writing"
    /\ cached_response' = [cached_response EXCEPT !.data = t_new.data]
    /\ lock' = "none"
    /\ writes' = writes \cup {t_new}
    /\ late' = IF est = "dropped" THEN [late EXCEPT !.writes = @ + 1] ELSE late
    /\ t_new' = NoResponse
    /\ t_pc' = Suspend("sleeping")
    /\ t_wake' = IF abort THEN 0 ELSE now + RATE_LIMIT(kind)
    /\ owners' = IF abort THEN owners \ {"task"} ELSE owners
    /\ UNCHANGED <<wsVars, restVars>>
    /\ UNCHANGED <<kind, now, est, abort, fetches, initial, bg_ok, failed>>
    /\ UNCHANGED readerVars

\* The runtime drops an aborted task that is at an await, with whatever it
\* was waiting for.
TaskCancel ==
    /\ abort
    /\ AtAwait(t_pc)
    /\ t_pc' = "cancelled"
    /\ t_wake' = 0
    /\ owners' = owners \ {"task"}
    /\ UNCHANGED <<wsVars, restVars>>
    /\ UNCHANGED <<kind, now, est, cached_response, lock, t_new, abort, fetches>>
    /\ UNCHANGED <<readerVars, histVars>>

(***************************************************************************)
(* A reader call: estimate_with_limits(_, time_limit) on the estimator.    *)
(***************************************************************************)
\* self.cached_response.lock().unwrap().clone(): the lock is taken and the
\* fields are cloned in order.
ReaderCloneBegin ==
    /\ est = "alive"
    /\ r_pc \in {"idle", "done"}
    /\ LockFree
    /\ lock' = "reader"
    /\ r_clone' = [time |-> cached_response.time, data |-> <<>>]
    /\ r_pc' = "cloning"
    /\ r_tl' = 0
    /\ r_result' = NoResult
    /\ r_now' = 0
    /\ UNCHANGED <<wsVars, restVars>>
    /\ UNCHANGED <<kind, now, est, cached_response, owners, abort>>
    /\ UNCHANGED <<taskVars, histVars>>

\* The clone completes, the guard is dropped and
\* estimate_with_limits(time_limit, cached_response) runs on the clone.
ReaderCloneEnd(time_limit) ==
    /\ r_pc = "cloning"
    /\ r_clone' = [r_clone EXCEPT !.data = cached_response.data]
    /\ lock' = "none"
    /\ r_tl' = time_limit
    /\ r_now' = now
    /\ r_result' = estimate_with_limits(kind, time_limit, r_clone', now)
    /\ r_pc' = "done"
    /\ UNCHANGED <<wsVars, restVars>>
    /\ UNCHANGED <<kind, now, est, cached_response, owners, abort>>
    /\ UNCHANGED <<taskVars, histVars>>

(***************************************************************************)
(* Drop: self.handle.abort(); self.cached_response = Default::default().   *)
(* No call borrows the estimator when it is dropped.                       *)
(***************************************************************************)
\* A Drop that does not abort the task.
Drop_NoAbort ==
    /\ est = "alive"
    /\ r_pc \in {"idle", "done"}
    /\ owners' = owners \ {"estimator"}
    /\ est' = "dropped"
    /\ UNCHANGED <<wsVars, restVars>>
    /\ UNCHANGED <<kind, now, cached_response, lock, abort>>
    /\ UNCHANGED <<taskVars, readerVars, histVars>>

Drop ==
    /\ est = "alive"
    /\ r_pc \in {"idle", "done"}
    /\ abort' = TRUE
    /\ owners' = owners \ {"estimator"}
    /\ est' = "dropped"
    /\ UNCHANGED <<wsVars, restVars>>
    /\ UNCHANGED <<kind, now, cached_response, lock>>
    /\ UNCHANGED <<taskVars, readerVars, histVars>>

Next ==
    \/ Tick
    \/ \E response \in Upstream(kind) : CtorFetchOk(response)
    \/ CtorFetchErr
    \/ TaskWake
    \/ TaskIssueFetch
    \/ TaskFetchErr
    \/ \E response \in Upstream(kind) : TaskFetchOk(response)
    \/ TaskWriteBegin
    \/ TaskWriteEnd
    \/ TaskCancel
    \/ ReaderCloneBegin
    \/ \E time_limit \in TimeLimits : ReaderCloneEnd(time_limit)
    \/ Drop

Spec == Init /\ [][Next]_vars

(***************************************************************************)
(* Properties of the cached refresher (specification Spec).                *)
(***************************************************************************)
Age(instant_now, cached) == instant_now - cached.time

\* C1: refresher isolation.  While no background fetch has succeeded, a
\* reader call returns the estimate computed from the snapshot the
\* constructor stored if that snapshot's age is at most the validity, and
\* Stale if it is older; the background failures do not reach the result.
C1_RefresherIsolation ==
    (r_pc = "done" /\ ~bg_ok) =>
        /\ IsSome(initial)
        /\ Age(r_now, initial[1]) > CACHED_RESPONSE_VALIDITY(kind)
              => r_result = Err("Stale")
        /\ Age(r_now, initial[1]) <= CACHED_RESPONSE_VALIDITY(kind)
              => r_result = estimate_with_limits(kind, r_tl, initial[1], initial[1].time)
        /\ r_result.err \in {"", "Stale", "NotReady", "InvalidInput", "NoEip1559"}

\* Every background fetch has failed, and the reader is told Stale.
C1_Witness ==
    /\ r_pc = "done"
    /\ ~bg_ok
    /\ failed = MaxFetches
    /\ r_result = Err("Stale")

\* C2: a failed background fetch leaves the cell (time and data) and its
\* lock as they are and the task goes back to sleep for RATE_LIMIT (unless
\* it has been aborted); a write that completes leaves the cell holding the
\* time and the data of the one response being stored.
C2_FailedFetchFrame ==
    [][ /\ (failed' # failed) =>
              /\ cached_response' = cached_response
              /\ lock' = lock
              /\ t_pc' = Suspend("sleeping")
              /\ ~abort => t_wake' = now + RATE_LIMIT(kind)
        /\ (t_pc = "writing" /\ t_pc' # "writing") =>
              /\ cached_response' = t_new
              /\ cached_response.time = t_new.time
      ]_vars

\* A refresh has replaced the constructor's snapshot, a later fetch has
\* failed and the task sleeps again.
C2_Witness ==
    /\ failed >= 1
    /\ bg_ok
    /\ t_pc = "sleeping"
    /\ cached_response \in writes
    /\ cached_response # initial[1]

\* C3: a reader call returns Stale exactly when now - snapshot.time exceeds
\* CACHED_RESPONSE_VALIDITY; an age of exactly the validity is not stale.
C3_StaleIffOlderThanValidity ==
    r_pc = "done" =>
        (r_result = Err("Stale")
            <=> Age(r_now, r_clone) > CACHED_RESPONSE_VALIDITY(kind))

\* A snapshot aged exactly 60 s still gives a price.
C3_Witness ==
    /\ r_pc = "done"
    /\ Age(r_now, r_clone) = CACHED_RESPONSE_VALIDITY(kind)
    /\ r_result.tag = "Ok"

\* C4: every snapshot a reader clones is one whole CachedResponse stored by
\* the constructor or by one successful refresh, whenever nobody is in the
\* middle of a write the cell holds such a value, and no step of the reader
\* issues a fetch.
C4_ReaderSeesWholeWrite ==
    /\ [](r_pc = "done" => r_clone \in writes)
    /\ []((lock # "task" /\ est \in {"alive", "dropped"}) => cached_response \in writes)
    /\ [][r_pc' # r_pc => fetches' = fetches]_vars

\* The refresher holds a new response and waits for the lock while the
\* reader is cloning the cell.
C4_Witness ==
    /\ r_pc = "cloning"
    /\ t_pc = "got"
    /\ t_new # cached_response

\* C5: a constructor whose first fetch failed returns Err: no estimator
\* exists, no task was spawned and no background fetch is ever issued; a task
\* exists only once the constructor has stored the first response.
C5_NoTaskWithoutFirstFetch ==
    /\ est = "failed" =>
          /\ t_pc = "none"
          /\ fetches = 0
          /\ owners = {}
          /\ r_pc = "idle"
          /\ writes = {}
    /\ t_pc # "none" =>
          /\ IsSome(initial)
          /\ initial[1] \in writes
          /\ est \in {"alive", "dropped"}

\* The first fetch failed after some time.
C5_Witness ==
    /\ est = "failed"
    /\ now > 0

\* C6 as claimed: once the estimator is dropped its task issues no fetch and
\* writes no snapshot.
C6_NothingAfterDrop ==
    est = "dropped" => (late.fetches = 0 /\ late.writes = 0)

\* C6, amended: Drop requests the abort, which takes effect at an await.  A
\* task that is at an await when the estimator is dropped never runs again;
\* a task in the middle of a poll finishes that poll alone (at most one more
\* fetch and one more write) and is cancelled at the next await.  After the
\* drop the task never starts another sleep and is never woken from one, a
\* cancelled task stays cancelled, and the cell is released with the task.
C6_AbortAtNextAwait ==
    /\ [](est = "dropped" =>
            /\ abort
            /\ late.fetches <= 1
            /\ late.writes <= 1
            /\ t_pc = "cancelled" => owners = {})
    /\ [][est = "dropped" =>
            /\ AtAwait(t_pc) =>
                  /\ t_pc' \in {t_pc, "cancelled"}
                  /\ cached_response' = cached_response
                  /\ fetches' = fetches
            /\ t_pc' # t_pc => t_pc' \notin {"sleeping", "woken"}
            /\ t_pc = "cancelled" =>
                  /\ t_pc' = "cancelled"
                  /\ cached_response' = cached_response
                  /\ fetches' = fetches
         ]_vars

\* The estimator was dropped while the refresher was storing a response: the
\* write completed and the task was then cancelled.
C6_Witness ==
    /\ est = "dropped"
    /\ t_pc = "cancelled"
    /\ late.writes = 1
    /\ owners = {}

\* C7: a reader whose snapshot holds zero entries gets an error, never a
\* price: NotReady, or Stale when the snapshot is also too old.
C7_EmptySnapshotIsNotReady ==
    (r_pc = "done" /\ Entries(kind, r_clone.data) = 0) =>
        /\ r_result.tag = "Err"
        /\ r_result.err =
              IF Age(r_now, r_clone) > CACHED_RESPONSE_VALIDITY(kind)
              THEN "Stale" ELSE "NotReady"

\* A fresh snapshot with no entries, stored by a successful refresh.
C7_Witness ==
    /\ r_pc = "done"
    /\ bg_ok
    /\ Entries(kind, r_clone.data) = 0
    /\ r_result = Err("NotReady")

(***************************************************************************)
(* gasnow.rs: the anchors of the GasNow response and its estimate.         *)
(***************************************************************************)
RAPID == 15
FAST == 60
STANDARD == 300
SLOW == 600

ResponseData(rapid, fast, standard, slow) ==
    [rapid |-> rapid, fast |-> fast, standard |-> standard, slow |-> slow]

gasnow_estimate_with_limits(time_limit, response) ==
    LET points == << <<RInt(RAPID), RInt(response.rapid)>>,
                     <<RInt(FAST), RInt(response.fast)>>,
                     <<RInt(STANDARD), RInt(response.standard)>>,
                     <<RInt(SLOW), RInt(response.slow)>> >>
    IN  Ok([legacy |-> interpolate(RInt(time_limit), points), eip1559 |-> <<>>])

(***************************************************************************)
(* gasnow_websocket.rs: GasNowWebSocketGasStation and its receive_forever  *)
(* task.  The station and its clones hold the receivers of a watch channel *)
(* whose sender the task owns.                                             *)
(***************************************************************************)
MaxReceivers == 2

RECONNECT_INTERVAL == 15

\* The max_update_age the station is constructed with; receive_forever gets
\* it as max_update_interval.
max_update_age == 20

\* Updates the server sends, and the frames of the stream: a text or binary
\* frame that decodes to an Update, one that decodes to some other JSON value,
\* one that is not JSON, and a frame that is neither text nor binary.
WsData == {ResponseData(4, 3, 2, 1), ResponseData(8, 6, 4, 2)}
NoData == ResponseData(0, 0, 0, 0)
Messages ==
    [frame : {"text", "binary"}, json : {"Update"}, data : WsData]
        \cup [frame : {"text", "binary"}, json : {"Other", "Invalid"}, data : {NoData}]
        \cup [frame : {"ping"}, json : {"Invalid"}, data : {NoData}]

\* Message::Text(_) | Message::Binary(_): the frames the loop decodes.
Payload(message) == message.frame \in {"text", "binary"}

\* Instant::elapsed.
elapsed(instant, instant_now) == saturating_duration_since(instant_now, instant)

\* An estimate_with_limits that refuses an update whose age is exactly
\* max_update_age.
WS_estimate_with_limits_Strict(time_limit, value, instant_now) ==
    IF IsNone(value)
    THEN Err("NotReady")
    ELSE IF ~(elapsed(value[1].instant, instant_now) < max_update_age)
    THEN Err("Stale")
    ELSE gasnow_estimate_with_limits(time_limit, value[1].data)

\* GasNowWebSocketGasStation::estimate_with_limits on the borrowed value.
WS_estimate_with_limits(time_limit, value, instant_now) ==
    IF IsNone(value)
    THEN Err("NotReady")
    ELSE IF ~(elapsed(value[1].instant, instant_now) <= max_update_age)
    THEN Err("Stale")
    ELSE gasnow_estimate_with_limits(time_limit, value[1].data)

\* with_error_reporter: the channel is created empty and the task spawned;
\* the task's first poll starts the first connection attempt.
InitWS ==
    /\ ws_pc = "connecting"
    /\ ws_deadline = max_update_age
    /\ ws_value = <<>>
    /\ ws_rx = 1
    /\ ws_made = 1
    /\ ws_report = ""
    /\ ws_read = NoRead
    /\ ws_last = <<>>
    /\ ws_ended = <<>>
    /\ ws_exit_from = ""
    /\ ws_changed = FALSE
    /\ ws_w_pc = "idle"
    /\ ws_w_waited = FALSE

\* No refreshing estimator has been constructed.
RefresherIdle ==
    /\ kind = "BlockNative"
    /\ est = "none"
    /\ cached_response = DefaultCachedResponse("BlockNative", 0)
    /\ owners = {}
    /\ lock = "none"
    /\ t_pc = "none"
    /\ t_wake = 0
    /\ t_new = NoResponse
    /\ abort = FALSE
    /\ fetches = 0
    /\ r_pc = "idle"
    /\ r_tl = 0
    /\ r_clone = NoResponse
    /\ r_result = NoResult
    /\ r_now = 0
    /\ writes = {}
    /\ initial = <<>>
    /\ bg_ok = FALSE
    /\ failed = 0
    /\ late = [fetches |-> 0, writes |-> 0]

\* sender.closed(): every receiver has been dropped.
is_closed == ws_rx = 0

\* select(work, is_closed): a poll runs the work and then looks at is_closed;
\* the task goes on with the work only while a receiver exists.
Select(pc, deadline) ==
    /\ ws_pc' = IF is_closed THEN "exited" ELSE pc
    /\ ws_deadline' = IF is_closed THEN 0 ELSE deadline
    /\ ws_exit_from' = IF is_closed THEN ws_pc ELSE ws_exit_from

\* A loop that starts the next attempt without sleeping.
ReconnectAt_NoWait(instant_now) == instant_now

\* tokio::time::sleep(reconnect_interval) in the loop of receive_forever.
ReconnectAt(instant_now) == instant_now + RECONNECT_INTERVAL

\* A return that empties the channel.
Return_Clears(by, report) ==
    /\ ws_report' = report
    /\ ws_ended' = Some([at |-> now, by |-> by])
    /\ Select("waiting", ReconnectAt(now))
    /\ ws_value' = <<>>
    /\ UNCHANGED <<ws_last, ws_rx, ws_made, ws_read>>
    /\ UNCHANGED <<now, refresherVars, restVars, waitVars>>

\* connect_and_receive_until_error returns (after reporting, if the end is an
\* error) and the loop of receive_forever goes to its sleep.
Return(by, report) ==
    /\ ws_report' = report
    /\ ws_ended' = Some([at |-> now, by |-> by])
    /\ Select("waiting", ReconnectAt(now))
    /\ UNCHANGED <<ws_value, ws_last, ws_rx, ws_made, ws_read>>
    /\ UNCHANGED <<now, refresherVars, restVars, waitVars>>

\* timeout(max_update_interval, connect_async(api)) elapsed.
WSConnectTimeOut ==
    /\ ws_pc = "connecting"
    /\ now >= ws_deadline
    /\ Return("ConnectionTimeOut", "ConnectionTimeOut")

\* connect_async answered with an error.
WSConnectFailure ==
    /\ ws_pc = "connecting"
    /\ Return("ConnectionFailure", "ConnectionFailure")

\* connect_async answered with a stream: the loop waits for its first frame.
WSConnected ==
    /\ ws_pc = "connecting"
    /\ ws_report' = ""
    /\ Select("streaming", now + max_update_age)
    /\ UNCHANGED <<ws_value, ws_last, ws_rx, ws_made, ws_read, ws_ended>>
    /\ UNCHANGED <<now, refresherVars, restVars, waitVars>>

\* timeout(max_update_interval, stream.next()) elapsed.
WSStreamTimeOut ==
    /\ ws_pc = "streaming"
    /\ now >= ws_deadline
    /\ Return("StreamTimeOut", "StreamTimeOut")

\* stream.next() answered None: the server closed the stream.
WSStreamClosed ==
    /\ ws_pc = "streaming"
    /\ Return("Closed", "")

\* stream.next() answered an error.
WSStreamFailure ==
    /\ ws_pc = "streaming"
    /\ Return("StreamFailure", "StreamFailure")

\* sender.send(Some((Instant::now(), data))): a watch channel without a
\* receiver refuses the value, and the result of send is ignored.
send(data) ==
    IF is_closed THEN ws_value ELSE Some([instant |-> now, data |-> data])

\* A loop that returns when a payload does not decode.
WSMessage_StopsOnInvalid(message) ==
    /\ ws_pc = "streaming"
    /\ IF Payload(message) /\ message.json = "Invalid"
       THEN /\ Return("JsonDecodeFailed", "JsonDecodeFailed")
            /\ UNCHANGED ws_changed
       ELSE /\ IF Payload(message) /\ message.json = "Update"
               THEN /\ ws_value' = send(message.data)
                    /\ ws_last' = IF is_closed THEN ws_last ELSE ws_value'
                    /\ ws_changed' = (ws_changed \/ ~is_closed)
               ELSE UNCHANGED <<ws_value, ws_last, ws_changed>>
            /\ ws_report' = ""
            /\ Select("streaming", now + max_update_age)
            /\ UNCHANGED <<ws_rx, ws_made, ws_read, ws_ended>>
            /\ UNCHANGED <<now, refresherVars, restVars, ws_w_pc, ws_w_waited>>

\* stream.next() answered a frame.  Whatever the frame is, the loop goes back
\* to stream.next() with a new timeout.
WSMessage(message) ==
    /\ ws_pc = "streaming"
    /\ IF Payload(message) /\ message.json = "Update"
       THEN /\ ws_value' = send(message.data)
            /\ ws_last' = IF is_closed THEN ws_last ELSE ws_value'
            /\ ws_changed' = (ws_changed \/ ~is_closed)
            /\ ws_report' = ""
       ELSE /\ ws_report' = IF Payload(message) /\ message.json = "Invalid"
                            THEN "JsonDecodeFailed"
                            ELSE ""
            /\ UNCHANGED <<ws_value, ws_last, ws_changed>>
    /\ Select("streaming", now + max_update_age)
    /\ UNCHANGED <<ws_rx, ws_made, ws_read, ws_ended>>
    /\ UNCHANGED <<now, refresherVars, restVars, ws_w_pc, ws_w_waited>>

\* sleep(reconnect_interval) elapsed: the loop calls
\* connect_and_receive_until_error again.
WSReconnect ==
    /\ ws_pc = "waiting"
    /\ now >= ws_deadline
    /\ ws_report' = ""
    /\ Select("connecting", now + max_update_age)
    /\ UNCHANGED <<ws_value, ws_last, ws_rx, ws_made, ws_read, ws_ended>>
    /\ UNCHANGED <<now, refresherVars, restVars, waitVars>>

\* A task that does not look at is_closed.
WSExit_Never ==
    /\ FALSE
    /\ UNCHANGED vars

\* The last receiver's drop wakes the task; is_closed is ready, select
\* returns and receive_forever ends, dropping the stream and the sender.
WSExit ==
    /\ ws_pc \in {"connecting", "streaming", "waiting"}
    /\ is_closed
    /\ ws_pc' = "exited"
    /\ ws_deadline' = 0
    /\ ws_exit_from' = ws_pc
    /\ ws_report' = ""
    /\ UNCHANGED <<ws_value, ws_last, ws_rx, ws_made, ws_read, ws_ended>>
    /\ UNCHANGED <<now, refresherVars, restVars, waitVars>>

\* #[derive(Clone)]: a clone of the station holds a receiver of its own.
WSClone ==
    /\ ws_rx > 0
    /\ ws_made < MaxReceivers
    /\ ws_rx' = ws_rx + 1
    /\ ws_made' = ws_made + 1
    /\ UNCHANGED <<ws_pc, ws_deadline, ws_value, ws_report, ws_read, ws_last,
                   ws_ended, ws_exit_from>>
    /\ UNCHANGED <<now, refresherVars, restVars, waitVars>>

\* The receiver a wait_for_first_update call in progress borrows (&mut self):
\* its station cannot be dropped before the call returns.
Borrowed == IF ws_w_pc \in {"called", "waiting"} THEN 1 ELSE 0

\* The station or one of its clones is dropped.
WSDropReceiver ==
    /\ ws_rx > Borrowed
    /\ ws_rx' = ws_rx - 1
    /\ UNCHANGED <<ws_pc, ws_deadline, ws_value, ws_made, ws_report, ws_read,
                   ws_last, ws_ended, ws_exit_from>>
    /\ UNCHANGED <<now, refresherVars, restVars, waitVars>>

\* A call of estimate_with_limits on the station or on a clone.
WSEstimate(time_limit) ==
    /\ ws_rx > 0
    /\ ws_read' = [tl |-> time_limit, at |-> now,
                   res |-> WS_estimate_with_limits(time_limit, ws_value, now)]
    /\ UNCHANGED <<ws_pc, ws_deadline, ws_value, ws_rx, ws_made, ws_report,
                   ws_last, ws_ended, ws_exit_from>>
    /\ UNCHANGED <<now, refresherVars, restVars, waitVars>>

NextWSTask ==
    \/ Tick
    \/ WSConnectTimeOut
    \/ WSConnectFailure
    \/ WSConnected
    \/ WSStreamTimeOut
    \/ WSStreamClosed
    \/ WSStreamFailure
    \/ \E message \in Messages : WSMessage(message)
    \/ WSReconnect
    \/ WSExit
    \/ WSClone
    \/ WSDropReceiver

NextWS ==
    \/ NextWSTask
    \/ \E time_limit \in TimeLimits : WSEstimate(time_limit)

InitWSSpec == now = 0 /\ RefresherIdle /\ InitWS /\ RestIdle

SpecWS == InitWSSpec /\ [][NextWS]_vars

\* A wait loop that never waits.
WaitLoopCondition_Never(value) == FALSE

\* while (*self.receiver.borrow_and_update()).is_none()
WaitLoopCondition(value) == IsNone(value)

\* wait_for_first_update is called on a station.
WSWaitCall ==
    /\ ws_rx > 0
    /\ ws_w_pc \in {"idle", "returned"}
    /\ ws_w_pc' = "called"
    /\ ws_w_waited' = FALSE
    /\ UNCHANGED <<ws_pc, ws_deadline, ws_value, ws_rx, ws_made, ws_report,
                   ws_read, ws_last, ws_ended, ws_exit_from, ws_changed>>
    /\ UNCHANGED <<now, refresherVars, restVars>>

\* The first poll of the call: borrow_and_update marks the channel's version
\* as seen; with no update stored the call awaits changed().
WSWaitPoll ==
    /\ ws_w_pc = "called"
    /\ ws_changed' = FALSE
    /\ IF WaitLoopCondition(ws_value)
       THEN ws_w_pc' = "waiting" /\ ws_w_waited' = TRUE
       ELSE ws_w_pc' = "returned" /\ UNCHANGED ws_w_waited
    /\ UNCHANGED <<ws_pc, ws_deadline, ws_value, ws_rx, ws_made, ws_report,
                   ws_read, ws_last, ws_ended, ws_exit_from>>
    /\ UNCHANGED <<now, refresherVars, restVars>>

\* changed() resolves: Ok once the channel holds a version the receiver has
\* not seen, Err (and unwrap panics) if the sender is gone; after Ok the loop
\* looks at the value again.
WSWaitChanged ==
    /\ ws_w_pc = "waiting"
    /\ ws_changed \/ ws_pc = "exited"
    /\ ws_changed' = FALSE
    /\ ws_w_pc' = IF ~ws_changed THEN "panicked"
                  ELSE IF WaitLoopCondition(ws_value) THEN "waiting"
                  ELSE "returned"
    /\ UNCHANGED <<ws_pc, ws_deadline, ws_value, ws_rx, ws_made, ws_report,
                   ws_read, ws_last, ws_ended, ws_exit_from, ws_w_waited>>
    /\ UNCHANGED <<now, refresherVars, restVars>>

NextWSWait ==
    \/ NextWSTask
    \/ WSWaitCall
    \/ WSWaitPoll
    \/ WSWaitChanged

\* The runtime polls a task that has been woken: once every receiver is
\* dropped the task is eventually polled and exits.
SpecWSFair == InitWSSpec /\ [][NextWSTask]_vars /\ WF_vars(WSExit)

\* The caller awaits its wait_for_first_update call, and the runtime polls it
\* when the channel wakes it.
SpecWSWait ==
    InitWSSpec /\ [][NextWSWait]_vars /\ WF_vars(WSWaitPoll) /\ WF_vars(WSWaitChanged)

(***************************************************************************)
(* Properties of the WebSocket station (specifications SpecWS, SpecWSFair).*)
(***************************************************************************)
Running == ws_pc \in {"connecting", "streaming", "waiting"}
Connection == {"connecting", "streaming"}

\* C8: a call of estimate_with_limits on the WebSocket station fails with
\* NotReady while no update has ever been stored; once one has, it fails
\* with Stale when the last stored update is older than max_update_age and
\* otherwise, an age of exactly max_update_age included, returns the estimate
\* GasNow's interpolation gives for the last stored update.
C8_EstimateFromLastUpdate ==
    [][ws_read' # ws_read =>
          /\ ws_read'.at = now
          /\ IsNone(ws_last) => ws_read'.res = Err("NotReady")
          /\ (IsSome(ws_last) /\ now - ws_last[1].instant > max_update_age)
                => ws_read'.res = Err("Stale")
          /\ (IsSome(ws_last) /\ now - ws_last[1].instant <= max_update_age)
                => ws_read'.res =
                      gasnow_estimate_with_limits(ws_read'.tl, ws_last[1].data)
      ]_vars

\* A call made when the last update was exactly max_update_age old returned
\* a price.
C8_Witness ==
    /\ IsSome(ws_last)
    /\ ws_read.at = now
    /\ now - ws_last[1].instant = max_update_age
    /\ ws_read.res.tag = "Ok"

\* C9: while a receiver exists, every end of a connection attempt or of a
\* stream puts the task into its reconnect sleep at that moment; a connection
\* attempt starts only out of that sleep and no sooner than
\* RECONNECT_INTERVAL after the end; the task never stops while a receiver
\* exists, and once the sleep has elapsed the next attempt can start.
C9_ReconnectAfterWait ==
    /\ [][(ws_rx > 0 /\ ws_pc \in Connection /\ ws_pc' \notin Connection) =>
             /\ ws_pc' = "waiting"
             /\ IsSome(ws_ended')
             /\ ws_ended'[1].at = now
        ]_vars
    /\ [][(ws_pc' = "connecting" /\ ws_pc # "connecting") =>
             /\ ws_pc = "waiting"
             /\ IsSome(ws_ended)
             /\ now >= ws_ended[1].at + RECONNECT_INTERVAL
        ]_vars
    /\ [](ws_rx > 0 => Running)
    /\ []((ws_rx > 0 /\ ws_pc = "waiting"
              /\ now >= ws_ended[1].at + RECONNECT_INTERVAL)
            => ENABLED WSReconnect)

\* The stream timed out, the task slept and is connecting again.
C9_Witness ==
    /\ ws_rx > 0
    /\ ws_pc = "connecting"
    /\ IsSome(ws_ended)
    /\ ws_ended[1].by = "StreamTimeOut"
    /\ ws_report = ""

\* C10: the task ends, and with it the sender, only when no receiver exists,
\* and once the station and all its clones are dropped it eventually ends,
\* wherever it is: connecting, streaming or in its reconnect sleep.
C10_ExitsWhenAllReceiversDropped ==
    /\ [](ws_pc = "exited" => ws_rx = 0)
    /\ [][(ws_pc' = "exited" /\ ws_pc # "exited") => ws_rx = 0]_vars
    /\ \A pc \in {"connecting", "streaming", "waiting"} :
          (ws_rx = 0 /\ ws_pc = pc) ~> (ws_pc = "exited")

\* The station and its clone were dropped while the task was in its reconnect
\* sleep, and the task exited.
C10_Witness ==
    /\ ws_pc = "exited"
    /\ ws_exit_from = "waiting"
    /\ ws_made = MaxReceivers
    /\ ws_rx = 0

\* C11: wait_for_first_update returns only when an update is stored, so that no
\* estimate made then fails with NotReady; it never panics on a dropped
\* sender; called when an update is already stored it returns at its first
\* poll without awaiting; and a call in progress returns eventually once an
\* update is stored.
C11_WaitForFirstUpdate ==
    /\ [](ws_w_pc = "returned" =>
            /\ IsSome(ws_value)
            /\ \A time_limit \in TimeLimits :
                  WS_estimate_with_limits(time_limit, ws_value, now).err # "NotReady")
    /\ [](ws_w_pc # "panicked")
    /\ [][(ws_w_pc = "called" /\ IsSome(ws_value) /\ ws_w_pc' # "called") =>
             (ws_w_pc' = "returned" /\ ~ws_w_waited')]_vars
    /\ (ws_w_pc \in {"called", "waiting"} /\ IsSome(ws_value)) ~> (ws_w_pc = "returned")

\* A call made before the first update awaited it and returned.
C11_Witness ==
    /\ ws_w_pc = "returned"
    /\ ws_w_waited
    /\ IsSome(ws_value)

(***************************************************************************)
(* The priority aggregator: an ordered list of estimators, tried in order  *)
(* until one answers (specification SpecPriority).  A child is an          *)
(* estimator of any kind: what it answers is a choice among ChildOutcomes. *)
(***************************************************************************)
\* The most children a list holds.
MaxChildren == 3

ChildErrors == {"Upstream", "Stale", "NotReady"}
ChildPrices == {[legacy |-> RInt(1), eip1559 |-> <<>>],
                [legacy |-> RInt(2), eip1559 |-> <<>>]}

\* One line of the history: the child asked and what it returned.
Asked(child, outcome) == [child |-> child, outcome |-> outcome]

\* The other components stay as they are.
outsidePriority == <<now, refresherVars, wsVars, gnVars, exVars, gpVars, crVars,
                     fnVars>>

\* estimate_with_limits is called on a list of n children; an empty list
\* fails at once.
PrCall(n) ==
    /\ pr_pc = "idle"
    /\ pr_n' = n
    /\ pr_log' = <<>>
    /\ IF n = 0
       THEN /\ pr_pc' = "done"
            /\ pr_i' = 0
            /\ pr_result' = Err("NoEstimators")
       ELSE /\ pr_pc' = "next"
            /\ pr_i' = 1
            /\ pr_result' = NoResult
    /\ UNCHANGED outsidePriority

\* The call asks the child it is at and awaits its answer.
PrQuery ==
    /\ pr_pc = "next"
    /\ pr_pc' = "querying"
    /\ UNCHANGED <<pr_n, pr_i, pr_log, pr_result, outsidePriority>>

\* A variant that asks the remaining children too and returns the last Ok.
PrChildOk_KeepsGoing(price) ==
    /\ pr_pc = "querying"
    /\ pr_log' = Append(pr_log, Asked(pr_i, Ok(price)))
    /\ pr_result' = Ok(price)
    /\ IF pr_i < pr_n
       THEN pr_pc' = "next" /\ pr_i' = pr_i + 1
       ELSE pr_pc' = "done" /\ pr_i' = pr_i
    /\ UNCHANGED <<pr_n, outsidePriority>>

\* The child answers Ok: that is the call's result.
PrChildOk(price) ==
    /\ pr_pc = "querying"
    /\ pr_log' = Append(pr_log, Asked(pr_i, Ok(price)))
    /\ pr_result' = Ok(price)
    /\ pr_pc' = "done"
    /\ UNCHANGED <<pr_n, pr_i, outsidePriority>>

\* A variant that keeps the first error it saw.
PrChildErr_FirstError(e) ==
    /\ pr_pc = "querying"
    /\ pr_log' = Append(pr_log, Asked(pr_i, Err(e)))
    /\ pr_result' = IF pr_log = <<>> THEN Err(e) ELSE pr_log[1].outcome
    /\ IF pr_i < pr_n
       THEN pr_pc' = "next" /\ pr_i' = pr_i + 1
       ELSE pr_pc' = "done" /\ pr_i' = pr_i
    /\ UNCHANGED <<pr_n, outsidePriority>>

\* The child answers with an error: the call moves to the next child, or
\* returns this error when there is none.
PrChildErr(e) ==
    /\ pr_pc = "querying"
    /\ pr_log' = Append(pr_log, Asked(pr_i, Err(e)))
    /\ IF pr_i < pr_n
       THEN /\ pr_pc' = "next"
            /\ pr_i' = pr_i + 1
            /\ pr_result' = NoResult
       ELSE /\ pr_pc' = "done"
            /\ pr_i' = pr_i
            /\ pr_result' = Err(e)
    /\ UNCHANGED <<pr_n, outsidePriority>>

NextPriority ==
    \/ \E n \in 0..MaxChildren : PrCall(n)
    \/ PrQuery
    \/ \E price \in ChildPrices : PrChildOk(price)
    \/ \E e \in ChildErrors : PrChildErr(e)

InitPriority ==
    /\ now = 0 /\ RefresherIdle /\ WSIdle /\ PrIdle /\ GnIdle /\ ExIdle /\ GpIdle
    /\ CrIdle /\ FnIdle

SpecPriority == InitPriority /\ [][NextPriority]_vars

\* The children asked so far, those answered and the one awaited.
PrAsked ==
    [k \in 1..Len(pr_log) |-> pr_log[k].child]
        \o (IF pr_pc = "querying" THEN <<pr_i>> ELSE <<>>)

\* C12: the children are asked strictly in list order, one after another: the
\* children asked so far are the first ones of the list, each but the last
\* asked has answered with an error, and once a child answers Ok the call
\* returns that answer and asks no later child.
C12_FirstOkInListOrder ==
    /\ [](/\ Len(PrAsked) <= pr_n
          /\ \A k \in 1..Len(PrAsked) : PrAsked[k] = k
          /\ \A k \in 1..(Len(PrAsked) - 1) : pr_log[k].outcome.tag = "Err"
          /\ \A k \in 1..Len(pr_log) :
                pr_log[k].outcome.tag = "Ok" =>
                    /\ pr_pc = "done"
                    /\ k = Len(pr_log)
                    /\ pr_result = pr_log[k].outcome)
    /\ [][pr_pc = "done" => UNCHANGED prVars]_vars

\* The third child answered Ok after the first two had failed.
C12_Witness ==
    /\ pr_pc = "done"
    /\ pr_result.tag = "Ok"
    /\ Len(pr_log) = 2
    /\ pr_n = MaxChildren

\* C13: when every child fails the call returns an error, and it is the error
\* of the last child of the list, whatever the earlier children's errors.
C13_LastErrorWhenAllFail ==
    (/\ pr_pc = "done"
     /\ pr_n > 0
     /\ \A k \in 1..Len(pr_log) : pr_log[k].outcome.tag = "Err")
        => /\ Len(pr_log) = pr_n
           /\ pr_result.tag = "Err"
           /\ pr_result = pr_log[pr_n].outcome

\* Every child failed and the first error differs from the last one.
C13_Witness ==
    /\ pr_pc = "done"
    /\ pr_n = MaxChildren
    /\ Len(pr_log) = pr_n
    /\ pr_result.tag = "Err"
    /\ pr_log[1].outcome # pr_result
    /\ pr_log[2].outcome # pr_result

(***************************************************************************)
(* gasnow.rs: GasNowGasStation and its rate-limiting cache (specification  *)
(* SpecGasNow).  estimate_with_limits is called up to MaxCallers times,    *)
(* concurrently; each call reads Instant::now(), then takes the async      *)
(* mutex of last_response and holds it until it returns, across the fetch. *)
(***************************************************************************)
GN_RATE_LIMIT == 15

\* The clock of this specification advances in ticks of GnTimeStep seconds,
\* up to GnMaxTime.
GnTimeStep == 5
GnMaxTime == 30

\* Response { code, data }.
Response(code) == [code |-> code, data |-> NoData]
GnResponses == {Response(0), Response(1)}

\* Result<Response>.
GnOk(response) == [tag |-> "Ok", err |-> "", response |-> Some(response)]
GnErr(e) == [tag |-> "Err", err |-> e, response |-> <<>>]

\* What a fetch answers: gas_price_without_cache returns a response or fails.
GnFetchResults == {GnOk(r) : r \in GnResponses} \cup {GnErr("Upstream")}

\* result.as_ref().ok().copied()
ok(result) == result.response

CachedResponse(time, data) == [time |-> time, data |-> data]

\* A guard that still takes an entry of exactly RATE_LIMIT for fresh.
GnFresh_AtLimit(instant, cached) ==
    saturating_duration_since(instant, cached.time) <= GN_RATE_LIMIT

\* The guard of the first match arm.
GnFresh(instant, cached) ==
    saturating_duration_since(instant, cached.time) < GN_RATE_LIMIT

\* The other components stay as they are.
outsideGasNow == <<refresherVars, wsVars, prVars, exVars, gpVars, crVars, fnVars>>

GnTick ==
    /\ now + GnTimeStep <= GnMaxTime
    /\ now' = now + GnTimeStep
    /\ UNCHANGED <<gnVars, outsideGasNow>>

\* What a fresh cache entry makes a call return.
CachedOutcome(cached) ==
    IF IsSome(cached.data) THEN GnOk(cached.data[1])
    ELSE GnErr("CachedError")

\* The body of gas_price_with_cache from the moment caller c holds the lock:
\* the first arm returns the cached outcome and drops the lock, the second
\* calls fetch and keeps the lock while it awaits the answer.
Decide(c, instant) ==
    /\ gn_seen' = [gn_seen EXCEPT ![c] = Some(gn_cache)]
    /\ IF IsSome(gn_cache) /\ GnFresh(instant, gn_cache[1])
       THEN /\ gn_pc' = [gn_pc EXCEPT ![c] = "returned"]
            /\ gn_ret' = [gn_ret EXCEPT ![c] = Some(CachedOutcome(gn_cache[1]))]
            /\ gn_lock' = 0
            /\ gn_nfetch' = [gn_nfetch EXCEPT ![c] = 0]
            /\ UNCHANGED gn_fetched_at
       ELSE /\ gn_pc' = [gn_pc EXCEPT ![c] = "fetching"]
            /\ gn_ret' = [gn_ret EXCEPT ![c] = <<>>]
            /\ gn_lock' = c
            /\ gn_nfetch' = [gn_nfetch EXCEPT ![c] = 1]
            /\ gn_fetched_at' =
                  (IF gn_fetched_at = <<>> THEN <<>>
                   ELSE <<gn_fetched_at[Len(gn_fetched_at)]>>) \o <<now>>
    /\ UNCHANGED gn_cache

\* estimate_with_limits is called: Instant::now() is read, and
\* last_response.lock().await either takes the free lock or waits for it.
GnCall(c) ==
    /\ gn_pc[c] = "idle"
    /\ gn_now' = [gn_now EXCEPT ![c] = now]
    /\ IF gn_lock = 0
       THEN Decide(c, now)
       ELSE /\ gn_pc' = [gn_pc EXCEPT ![c] = "waiting"]
            /\ gn_ret' = [gn_ret EXCEPT ![c] = <<>>]
            /\ gn_seen' = [gn_seen EXCEPT ![c] = <<>>]
            /\ gn_nfetch' = [gn_nfetch EXCEPT ![c] = 0]
            /\ UNCHANGED <<gn_cache, gn_lock, gn_fetched_at>>
    /\ UNCHANGED <<now, outsideGasNow>>

\* The lock is released and a waiting caller gets it.
GnAcquire(c) ==
    /\ gn_pc[c] = "waiting"
    /\ gn_lock = 0
    /\ Decide(c, gn_now[c])
    /\ UNCHANGED <<gn_now, now, outsideGasNow>>

\* A variant that stores nothing when the fetch failed.
GnFetchReturns_DropsError(c, result) ==
    /\ gn_pc[c] = "fetching"
    /\ gn_cache' = IF result.tag = "Ok"
                   THEN Some(CachedResponse(gn_now[c], ok(result)))
                   ELSE gn_cache
    /\ gn_ret' = [gn_ret EXCEPT ![c] = Some(result)]
    /\ gn_pc' = [gn_pc EXCEPT ![c] = "returned"]
    /\ gn_lock' = 0
    /\ UNCHANGED <<gn_now, gn_seen, gn_nfetch, gn_fetched_at, now, outsideGasNow>>

\* fetch().await returns: the outcome is stored under the call's `now`, the
\* lock is dropped and the outcome returned.
GnFetchReturns(c, result) ==
    /\ gn_pc[c] = "fetching"
    /\ gn_cache' = Some(CachedResponse(gn_now[c], ok(result)))
    /\ gn_ret' = [gn_ret EXCEPT ![c] = Some(result)]
    /\ gn_pc' = [gn_pc EXCEPT ![c] = "returned"]
    /\ gn_lock' = 0
    /\ UNCHANGED <<gn_now, gn_seen, gn_nfetch, gn_fetched_at, now, outsideGasNow>>

NextGasNow ==
    \/ GnTick
    \/ \E c \in Callers : GnCall(c)
    \/ \E c \in Callers : GnAcquire(c)
    \/ \E c \in Callers, result \in GnFetchResults : GnFetchReturns(c, result)

InitGasNow ==
    /\ now = 0 /\ RefresherIdle /\ WSIdle /\ PrIdle /\ GnIdle /\ ExIdle /\ GpIdle
    /\ CrIdle /\ FnIdle

SpecGasNow == InitGasNow /\ [][NextGasNow]_vars

\* C14: whatever the interleaving of concurrent calls on one station, two
\* consecutive upstream fetches are at least RATE_LIMIT apart.
C14_FetchesRateLimited ==
    Len(gn_fetched_at) = 2 => gn_fetched_at[2] - gn_fetched_at[1] >= GN_RATE_LIMIT

\* Caller c gets the lock in this step and runs the match of
\* gas_price_with_cache on the cache as it is.
GnDecides(c) == (gn_lock = 0 /\ GnCall(c)) \/ GnAcquire(c)

\* C15: a call that finds a successful response cached with
\* now - cached.time < RATE_LIMIT returns it without a fetch and leaves the
\* cache as it is; a call that finds the cache empty, or an entry with
\* now - cached.time >= RATE_LIMIT (exactly RATE_LIMIT counts as expired),
\* invokes fetch exactly once, stores (now, result) and returns the result.
C15_CacheHitAndMiss ==
    /\ [][\A c \in Callers : GnDecides(c) =>
            IF IsSome(gn_cache) /\ gn_now'[c] - gn_cache[1].time < GN_RATE_LIMIT
            THEN IsSome(gn_cache[1].data) =>
                    /\ gn_pc'[c] = "returned"
                    /\ gn_ret'[c] = Some(GnOk(gn_cache[1].data[1]))
                    /\ gn_nfetch'[c] = 0
                    /\ UNCHANGED <<gn_cache, gn_fetched_at>>
            ELSE /\ gn_pc'[c] = "fetching"
                 /\ gn_nfetch'[c] = 1
                 /\ gn_fetched_at' # <<>>
                 /\ gn_fetched_at'[Len(gn_fetched_at')] = now]_vars
    /\ [][\A c \in Callers : (gn_pc[c] = "fetching" /\ gn_pc'[c] # "fetching") =>
            /\ gn_pc'[c] = "returned"
            /\ gn_nfetch'[c] = 1
            /\ UNCHANGED gn_fetched_at
            /\ \E result \in GnFetchResults :
                  /\ gn_ret'[c] = Some(result)
                  /\ gn_cache' = Some(CachedResponse(gn_now[c], ok(result)))]_vars

\* One call fetched because the entry it found was exactly RATE_LIMIT old, and
\* another call then got that new response from the cache without a fetch.
C15_Witness ==
    \E c, d \in Callers :
        /\ c # d
        /\ gn_pc[c] = "returned" /\ gn_pc[d] = "returned"
        /\ gn_nfetch[c] = 1
        /\ gn_seen[c] # <<>> /\ gn_seen[c][1] # <<>>
        /\ gn_now[c] - gn_seen[c][1][1].time = GN_RATE_LIMIT
        /\ gn_ret[c][1].tag = "Ok"
        /\ gn_seen[c][1][1].data # ok(gn_ret[c][1])
        /\ gn_cache = Some(CachedResponse(gn_now[c], ok(gn_ret[c][1])))
        /\ gn_nfetch[d] = 0
        /\ gn_seen[d] = Some(gn_cache)
        /\ gn_ret[d] = gn_ret[c]

\* C16: a failed fetch is cached under the `now` t of its call; a call that
\* finds it with now - t < RATE_LIMIT returns an error without a fetch, and a
\* call fetches again only when now - t >= RATE_LIMIT.
C16_ErrorsAreCached ==
    /\ [][\A c \in Callers :
            (gn_pc[c] = "fetching" /\ gn_pc'[c] = "returned"
                /\ gn_ret'[c][1].tag = "Err") =>
                gn_cache' = Some(CachedResponse(gn_now[c], <<>>))]_vars
    /\ [][\A c \in Callers :
            (GnDecides(c) /\ IsSome(gn_cache) /\ IsNone(gn_cache[1].data)) =>
                /\ gn_now'[c] - gn_cache[1].time < GN_RATE_LIMIT =>
                      /\ gn_pc'[c] = "returned"
                      /\ gn_ret'[c][1].tag = "Err"
                      /\ gn_nfetch'[c] = 0
                      /\ UNCHANGED <<gn_cache, gn_fetched_at>>
                /\ gn_pc'[c] = "fetching" =>
                      gn_now'[c] - gn_cache[1].time >= GN_RATE_LIMIT]_vars

\* A fetch failed and a later call, made before RATE_LIMIT had elapsed, got
\* the cached error without a fetch.
C16_Witness ==
    \E c \in Callers :
        /\ gn_pc[c] = "returned"
        /\ gn_nfetch[c] = 0
        /\ gn_ret[c] = Some(GnErr("CachedError"))
        /\ gn_seen[c] = Some(gn_cache)
        /\ gn_now[c] > gn_cache[1].time
        /\ Len(gn_fetched_at) = 1

\* C17: a call whose `now` is earlier than the cached entry's time takes the
\* entry for fresh: it makes no fetch and returns the cached outcome.
C17_OldNowIsFresh ==
    [][\A c \in Callers :
          (GnDecides(c) /\ IsSome(gn_cache) /\ gn_now'[c] < gn_cache[1].time) =>
              /\ gn_pc'[c] = "returned"
              /\ gn_ret'[c] = Some(CachedOutcome(gn_cache[1]))
              /\ gn_nfetch'[c] = 0
              /\ UNCHANGED <<gn_cache, gn_fetched_at>>]_vars

\* A caller that had waited for the lock found an entry stored RATE_LIMIT
\* after its own `now`, and returned it.
C17_Witness ==
    \E c \in Callers :
        /\ gn_pc[c] = "returned"
        /\ gn_nfetch[c] = 0
        /\ gn_seen[c] # <<>> /\ gn_seen[c][1] # <<>>
        /\ gn_seen[c][1][1].time - gn_now[c] >= GN_RATE_LIMIT
        /\ gn_ret[c] = Some(CachedOutcome(gn_seen[c][1][1]))

(***************************************************************************)
(* gas_price.rs: the pure operations on prices (specification              *)
(* SpecGasPrice).  The price and the argument are drawn from all amounts   *)
(* k/2 up to MaxAmount; an action applies the operation.                   *)
(***************************************************************************)
MaxAmount == 2
Amounts == {Rat(k, 2) : k \in 0..(2 * MaxAmount)}

\* f64::min
RMin(a, b) == IF RLeq(a, b) THEN a ELSE b

\* A clamp of max_fee_per_gas that leaves max_priority_fee_per_gas alone.
GasPrice1559_limit_cap_KeepsPriority(g, cap) ==
    [g EXCEPT !.max_fee_per_gas = RMin(g.max_fee_per_gas, cap)]

\* GasPrice1559::limit_cap
GasPrice1559_limit_cap(g, cap) ==
    [g EXCEPT !.max_fee_per_gas = RMin(g.max_fee_per_gas, cap),
              !.max_priority_fee_per_gas =
                  RMin(g.max_priority_fee_per_gas, RMin(g.max_fee_per_gas, cap))]

\* A legacy price that is not capped.
EstimatedGasPrice_limit_cap_KeepsLegacy(p, cap) ==
    [legacy |-> p.legacy,
     eip1559 |-> [i \in 1..Len(p.eip1559) |-> GasPrice1559_limit_cap(p.eip1559[i], cap)]]

\* EstimatedGasPrice::limit_cap
EstimatedGasPrice_limit_cap(p, cap) ==
    [legacy |-> RMin(p.legacy, cap),
     eip1559 |-> [i \in 1..Len(p.eip1559) |-> GasPrice1559_limit_cap(p.eip1559[i], cap)]]

GasPrices1559 ==
    {GasPrice1559(base, fee, prio) : base \in Amounts, fee \in Amounts, prio \in Amounts}

EstimatedGasPrices ==
    {[legacy |-> l, eip1559 |-> e] :
        l \in Amounts, e \in {<<>>} \cup {Some(g) : g \in GasPrices1559}}

\* A cap() that reads legacy whenever it is set.
cap_PrefersLegacy(p) ==
    IF p.legacy # RInt(0) \/ IsNone(p.eip1559) THEN p.legacy
    ELSE p.eip1559[1].max_fee_per_gas

\* EstimatedGasPrice::cap and EstimatedGasPrice::tip.
cap(p) == IF IsSome(p.eip1559) THEN p.eip1559[1].max_fee_per_gas ELSE p.legacy
tip(p) == IF IsSome(p.eip1559) THEN p.eip1559[1].max_priority_fee_per_gas ELSE p.legacy

\* EstimatedGasPrice::effective_gas_price: min_by with partial_cmp returns its
\* first argument unless the second is smaller.
effective_gas_price(p) ==
    IF IsSome(p.eip1559)
    THEN LET gas_price == p.eip1559[1]
             sum == RAdd(gas_price.max_priority_fee_per_gas, gas_price.base_fee_per_gas)
         IN  IF RLt(sum, gas_price.max_fee_per_gas) THEN sum
             ELSE gas_price.max_fee_per_gas
    ELSE p.legacy

\* f64::ceil, and the rounding towards zero of a non-negative amount.
RFloor(a) == RInt(a.n \div a.d)
RCeil(a) == RInt((a.n + a.d - 1) \div a.d)

\* GasPrice1559::bump and EstimatedGasPrice::bump
GasPrice1559_bump(g, factor) ==
    [g EXCEPT !.max_fee_per_gas = RMul(g.max_fee_per_gas, factor),
              !.max_priority_fee_per_gas = RMul(g.max_priority_fee_per_gas, factor)]

EstimatedGasPrice_bump(p, factor) ==
    [legacy |-> RMul(p.legacy, factor),
     eip1559 |-> [i \in 1..Len(p.eip1559) |-> GasPrice1559_bump(p.eip1559[i], factor)]]

\* GasPrice1559::ceil and EstimatedGasPrice::ceil
GasPrice1559_ceil(g) ==
    [g EXCEPT !.max_fee_per_gas = RCeil(g.max_fee_per_gas),
              !.max_priority_fee_per_gas = RCeil(g.max_priority_fee_per_gas)]

EstimatedGasPrice_ceil(p) ==
    [legacy |-> RCeil(p.legacy),
     eip1559 |-> [i \in 1..Len(p.eip1559) |-> GasPrice1559_ceil(p.eip1559[i])]]

\* The factors prices are bumped by: none, the 1.125 of the tests, and the
\* native oracle's bump_cap_coefficient.
Factors == {RInt(1), Rat(9, 8), RInt(bump_cap_coefficient)}

outsideGasPrice == <<now, refresherVars, wsVars, prVars, gnVars, exVars, crVars,
                     fnVars>>

\* Nothing has been applied to gp_price yet.
GpUntouched == gp_out = <<>> /\ gp_read = <<>> /\ gp_bumped = <<>>

\* price.limit_cap(cap)
GpLimitCap ==
    /\ GpUntouched
    /\ gp_out' = Some(EstimatedGasPrice_limit_cap(gp_price, gp_cap))
    /\ UNCHANGED <<gp_price, gp_cap, gp_read, gp_factor, gp_bumped, outsideGasPrice>>

Read(op, value) == [op |-> op, value |-> value]

\* price.cap()
GpCap ==
    /\ GpUntouched
    /\ gp_read' = Some(Read("cap", cap(gp_price)))
    /\ UNCHANGED <<gp_price, gp_cap, gp_out, gp_factor, gp_bumped, outsideGasPrice>>

\* price.tip()
GpTip ==
    /\ GpUntouched
    /\ gp_read' = Some(Read("tip", tip(gp_price)))
    /\ UNCHANGED <<gp_price, gp_cap, gp_out, gp_factor, gp_bumped, outsideGasPrice>>

\* price.effective_gas_price()
GpEffectiveGasPrice ==
    /\ GpUntouched
    /\ gp_read' = Some(Read("effective_gas_price", effective_gas_price(gp_price)))
    /\ UNCHANGED <<gp_price, gp_cap, gp_out, gp_factor, gp_bumped, outsideGasPrice>>

\* price.bump(factor).ceil()
GpBumpCeil(factor) ==
    /\ GpUntouched
    /\ gp_factor' = factor
    /\ gp_bumped' = <<EstimatedGasPrice_ceil(EstimatedGasPrice_bump(gp_price, factor))>>
    /\ UNCHANGED <<gp_price, gp_cap, gp_out, gp_read, outsideGasPrice>>

\* ... and bump(factor).ceil() of what that returned.
GpBumpCeilAgain ==
    /\ Len(gp_bumped) = 1
    /\ gp_bumped' = Append(gp_bumped,
            EstimatedGasPrice_ceil(EstimatedGasPrice_bump(gp_bumped[1], gp_factor)))
    /\ UNCHANGED <<gp_price, gp_cap, gp_out, gp_read, gp_factor, outsideGasPrice>>

NextGasPrice ==
    \/ GpLimitCap
    \/ GpCap
    \/ GpTip
    \/ GpEffectiveGasPrice
    \/ \E factor \in Factors : GpBumpCeil(factor)
    \/ GpBumpCeilAgain

InitGasPrice ==
    /\ now = 0 /\ RefresherIdle /\ WSIdle /\ PrIdle /\ GnIdle /\ ExIdle
    /\ CrIdle /\ FnIdle
    /\ gp_price \in EstimatedGasPrices
    /\ gp_cap \in Amounts
    /\ gp_out = <<>>
    /\ gp_read = <<>>
    /\ gp_factor = 0
    /\ gp_bumped = <<>>

SpecGasPrice == InitGasPrice /\ [][NextGasPrice]_vars

\* The two inequalities of a GasPrice1559.
FeeCoversPriority(g) == RLeq(g.max_priority_fee_per_gas, g.max_fee_per_gas)
FeeCoversBase(g) == RLeq(g.base_fee_per_gas, g.max_fee_per_gas)

\* C20 as stated: limit_cap(c) of a price that satisfies max_fee >= max_priority
\* and max_fee >= base_fee satisfies both again, for every c >= 0.
C20_LimitCapPreservesBoth ==
    (/\ IsSome(gp_out)
     /\ IsSome(gp_price.eip1559)
     /\ FeeCoversPriority(gp_price.eip1559[1])
     /\ FeeCoversBase(gp_price.eip1559[1]))
        => /\ FeeCoversPriority(gp_out[1].eip1559[1])
           /\ FeeCoversBase(gp_out[1].eip1559[1])

\* C20, amended: limit_cap(c) always yields max_fee >= max_priority; of a price
\* with max_fee >= base_fee it yields max_fee >= base_fee when c >= base_fee,
\* and max_fee < base_fee when c < base_fee (base_fee_per_gas is not changed).
C20_LimitCapPreservesPriorityOnly ==
    (IsSome(gp_out) /\ IsSome(gp_price.eip1559)) =>
        /\ FeeCoversPriority(gp_out[1].eip1559[1])
        /\ gp_out[1].eip1559[1].base_fee_per_gas = gp_price.eip1559[1].base_fee_per_gas
        /\ FeeCoversBase(gp_price.eip1559[1]) =>
              (FeeCoversBase(gp_out[1].eip1559[1])
                  <=> RLeq(gp_price.eip1559[1].base_fee_per_gas, gp_cap))

\* A price that satisfied both inequalities was capped below its max_fee and
\* its max_priority_fee, and not below its base fee.
C20_Witness ==
    /\ IsSome(gp_out)
    /\ IsSome(gp_price.eip1559)
    /\ FeeCoversPriority(gp_price.eip1559[1])
    /\ FeeCoversBase(gp_price.eip1559[1])
    /\ RLt(gp_cap, gp_price.eip1559[1].max_priority_fee_per_gas)
    /\ RLeq(gp_price.eip1559[1].base_fee_per_gas, gp_cap)
    /\ gp_out[1].eip1559[1].max_fee_per_gas = gp_cap
    /\ gp_out[1].eip1559[1].max_priority_fee_per_gas = gp_cap

(***************************************************************************)
(* C21: what limit_cap returns.                                            *)
(***************************************************************************)
\* m is the least of the amounts in S.
IsMin(m, S) == m \in S /\ \A a \in S : RLeq(m, a)

\* limit_cap(c) clamps every field as C21 says and keeps base_fee_per_gas.
LimitCapFields ==
    /\ IsMin(gp_out[1].legacy, {gp_price.legacy, gp_cap})
    /\ Len(gp_out[1].eip1559) = Len(gp_price.eip1559)
    /\ IsSome(gp_price.eip1559) =>
          LET g == gp_price.eip1559[1]
              h == gp_out[1].eip1559[1]
          IN  /\ IsMin(h.max_fee_per_gas, {g.max_fee_per_gas, gp_cap})
              /\ IsMin(h.max_priority_fee_per_gas,
                       {g.max_priority_fee_per_gas, g.max_fee_per_gas, gp_cap})
              /\ h.base_fee_per_gas = g.base_fee_per_gas

\* c is at least the current cap and legacy.
CapIsSlack == RLeq(cap(gp_price), gp_cap) /\ RLeq(gp_price.legacy, gp_cap)

\* C21 as stated: limit_cap(c) returns max_fee' = min(max_fee, c),
\* max_priority' = min(max_priority, max_fee, c), legacy' = min(legacy, c) and
\* the same base_fee_per_gas, and it returns the price unchanged whenever c is
\* at least the price's cap and its legacy.
C21_LimitCapIdentityWhenSlack ==
    IsSome(gp_out) =>
        /\ LimitCapFields
        /\ CapIsSlack => gp_out[1] = gp_price

\* C21, amended: the fields are clamped as stated; with c at least the cap and
\* legacy the price is returned unchanged exactly when it has no EIP-1559
\* record or max_priority <= max_fee, and otherwise only max_priority changes,
\* to max_fee.
C21_LimitCapFields ==
    IsSome(gp_out) =>
        /\ LimitCapFields
        /\ CapIsSlack =>
              /\ gp_out[1] = gp_price
                    <=> (IsSome(gp_price.eip1559) => FeeCoversPriority(gp_price.eip1559[1]))
              /\ gp_out[1].legacy = gp_price.legacy
              /\ IsSome(gp_price.eip1559) =>
                    /\ gp_out[1].eip1559[1].max_fee_per_gas
                           = gp_price.eip1559[1].max_fee_per_gas
                    /\ ~FeeCoversPriority(gp_price.eip1559[1]) =>
                           gp_out[1].eip1559[1].max_priority_fee_per_gas
                               = gp_price.eip1559[1].max_fee_per_gas

\* The legacy price and max_fee were capped, max_priority was not: the three
\* results differ from one another.
C21_Witness ==
    /\ IsSome(gp_out)
    /\ IsSome(gp_price.eip1559)
    /\ RLt(gp_cap, gp_price.legacy)
    /\ RLt(gp_cap, gp_price.eip1559[1].max_fee_per_gas)
    /\ RLt(gp_price.eip1559[1].max_priority_fee_per_gas, gp_cap)
    /\ gp_out[1].legacy = gp_cap
    /\ gp_out[1].eip1559[1].max_fee_per_gas = gp_cap
    /\ gp_out[1].eip1559[1].max_priority_fee_per_gas
           = gp_price.eip1559[1].max_priority_fee_per_gas
    /\ gp_out[1] # gp_price

(***************************************************************************)
(* C22: the readers of an EstimatedGasPrice.                               *)
(***************************************************************************)
\* C22: cap(), tip() and effective_gas_price() read the EIP-1559 record when
\* there is one, whatever legacy is, and legacy only when there is none; with
\* the record, effective_gas_price is min(max_fee, base_fee + max_priority).
C22_ReadersPreferEip1559 ==
    IsSome(gp_read) =>
        LET read == gp_read[1]
        IN  IF IsSome(gp_price.eip1559)
            THEN LET g == gp_price.eip1559[1]
                 IN  /\ read.op = "cap" => read.value = g.max_fee_per_gas
                     /\ read.op = "tip" => read.value = g.max_priority_fee_per_gas
                     /\ read.op = "effective_gas_price" =>
                            IsMin(read.value,
                                  {g.max_fee_per_gas,
                                   RAdd(g.base_fee_per_gas, g.max_priority_fee_per_gas)})
            ELSE read.value = gp_price.legacy

\* cap() was read from a price whose legacy is set and differs from its max_fee.
C22_Witness ==
    /\ IsSome(gp_read)
    /\ gp_read[1].op = "cap"
    /\ IsSome(gp_price.eip1559)
    /\ gp_price.legacy # RInt(0)
    /\ gp_price.legacy # gp_price.eip1559[1].max_fee_per_gas
    /\ gp_read[1].value = gp_price.eip1559[1].max_fee_per_gas

(***************************************************************************)
(* C23: bump(f).ceil() applied twice.                                      *)
(***************************************************************************)
\* The amounts of a price that bump and ceil work on, and all its amounts.
MaxFields(p) ==
    <<p.legacy>> \o (IF IsSome(p.eip1559)
                     THEN <<p.eip1559[1].max_fee_per_gas,
                            p.eip1559[1].max_priority_fee_per_gas>>
                     ELSE <<>>)
BaseFee(p) == [i \in 1..Len(p.eip1559) |-> p.eip1559[i].base_fee_per_gas]
IntegerValued(p) ==
    /\ \A i \in 1..Len(MaxFields(p)) : MaxFields(p)[i].d = 1
    /\ \A i \in 1..Len(BaseFee(p)) : BaseFee(p)[i].d = 1

\* y is x multiplied by gp_factor and rounded up.
BumpedAndCeiled(x, y) ==
    /\ y.d = 1
    /\ RLeq(RMul(x, gp_factor), y)
    /\ RLt(RSub(y, RInt(1)), RMul(x, gp_factor))

\* C23 as stated: of a price with integer fields, bump(f).ceil() applied to the
\* result of bump(f).ceil() gives that result again, and base_fee_per_gas is
\* never changed.
C23_BumpCeilIdempotent ==
    (Len(gp_bumped) = 2 /\ IntegerValued(gp_price)) =>
        /\ gp_bumped[2] = gp_bumped[1]
        /\ BaseFee(gp_bumped[1]) = BaseFee(gp_price)

\* C23, amended: bump(f).ceil() never changes base_fee_per_gas, multiplies
\* legacy, max_fee and max_priority by f and rounds each up, and a further
\* ceil() changes nothing.  Of a price with integer fields a second
\* bump(f).ceil() gives the same price when f = 1, and for f > 1 raises every
\* field of the three that is positive.
C23_BumpCeilGrows ==
    /\ \A k \in 1..Len(gp_bumped) :
          LET before == IF k = 1 THEN gp_price ELSE gp_bumped[k - 1]
              after == gp_bumped[k]
          IN  /\ BaseFee(after) = BaseFee(before)
              /\ Len(MaxFields(after)) = Len(MaxFields(before))
              /\ \A i \in 1..Len(MaxFields(before)) :
                    BumpedAndCeiled(MaxFields(before)[i], MaxFields(after)[i])
              /\ EstimatedGasPrice_ceil(after) = after
    /\ (Len(gp_bumped) = 2 /\ IntegerValued(gp_price)) =>
          /\ gp_factor = RInt(1) =>
                gp_bumped[2] = gp_bumped[1] /\ gp_bumped[1] = gp_price
          /\ RLt(RInt(1), gp_factor) =>
                \A i \in 1..Len(MaxFields(gp_price)) :
                    RLt(RInt(0), MaxFields(gp_price)[i]) =>
                        RLt(MaxFields(gp_bumped[1])[i], MaxFields(gp_bumped[2])[i])

\* The price of the test bump_and_ceil's kind: integer fields, all positive
\* and different, bumped by 1.125 twice; the first result is each field plus
\* one and the second differs from it.
C23_Witness ==
    /\ Len(gp_bumped) = 2
    /\ gp_factor = Rat(9, 8)
    /\ IntegerValued(gp_price)
    /\ IsSome(gp_price.eip1559)
    /\ gp_price.legacy = RInt(1)
    /\ gp_price.eip1559[1].max_fee_per_gas = RInt(2)
    /\ gp_price.eip1559[1].max_priority_fee_per_gas = RInt(1)
    /\ gp_price.eip1559[1].base_fee_per_gas = RInt(1)
    /\ gp_bumped[1].legacy = RInt(2)
    /\ gp_bumped[1].eip1559[1].max_fee_per_gas = RInt(3)
    /\ gp_bumped[1].eip1559[1].base_fee_per_gas = RInt(1)
    /\ gp_bumped[2].legacy = RInt(3)
    /\ gp_bumped[2].eip1559[1].max_fee_per_gas = RInt(4)

(***************************************************************************)
(* nativegasestimator.rs: suggest_fee, the list NativeGasEstimator stores  *)
(* and the estimates read from it; the estimates BlockNative and GasNow    *)
(* read from a vendor's response (specification SpecEstimate).  Amounts    *)
(* are whole numbers of wei, small enough for every sum to be exact.       *)
(***************************************************************************)
\* The most blocks a fee history holds besides the pending one.
MaxBlocks == 2

\* Params: the percentiles, max_time_factor and extra_priority_fee_ratio of
\* Default; the two fees are scaled down with the amounts, and
\* max_reward_percentile to two percentiles (0 and 1) a block.
params ==
    [sample_min_percentile |-> 10,
     sample_max_percentile |-> 30,
     max_reward_percentile |-> 1,
     min_block_percentile |-> 30,
     max_block_percentile |-> 60,
     max_time_factor |-> 128,
     extra_priority_fee_ratio |-> Rat(1, 4),
     extra_priority_fee_boost |-> 1,
     fallback_priority_fee |-> 2]

\* What eth_feeHistory answers: base fees of the blocks and of the pending
\* block, and the gas used ratio of each block.
BaseFees == {8, 16, 40}
GasUsedRatios == {Rat(1, 2), Rat(19, 20)}

SeqsOf(S, n) == [1..n -> S]

FeeHistories ==
    UNION {{[base_fee_per_gas |-> b, gas_used_ratio |-> r] :
                b \in SeqsOf(BaseFees, n + 1), r \in SeqsOf(GasUsedRatios, n)} :
           n \in 1..MaxBlocks}

\* What collect_rewards answers: the rewards, sorted.
RewardLists == {<<>>, <<1>>, <<1, 5, 9>>}

\* base_fee[len - 1] *= 9 / 8, in the integers of U256.
AdjustPending(base_fee) ==
    [base_fee EXCEPT ![Len(base_fee)] = @ * (9 \div 8)]

\* A pass from the oldest block to the most recent.
RECURSIVE CarryForward_OldestFirst(_, _, _)
CarryForward_OldestFirst(base_fee, gas_used_ratio, i) ==
    IF i = 0 THEN base_fee
    ELSE LET before == CarryForward_OldestFirst(base_fee, gas_used_ratio, i - 1)
         IN  IF RLt(Rat(9, 10), gas_used_ratio[i])
             THEN [before EXCEPT ![i] = before[i + 1]]
             ELSE before

\* for (i, gas_ratio_used) in gas_used_ratio.iter().enumerate().rev()
RECURSIVE CarryForward(_, _, _)
CarryForward(base_fee, gas_used_ratio, i) ==
    IF i = 0 THEN base_fee
    ELSE CarryForward(
            IF RLt(Rat(9, 10), gas_used_ratio[i])
            THEN [base_fee EXCEPT ![i] = base_fee[i + 1]]
            ELSE base_fee,
            gas_used_ratio, i - 1)

\* order.sort_by(|a, b| base_fee[*a].cmp(&base_fee[*b])): a stable sort of the
\* positions, ascending by base fee.
RECURSIVE InsertByBaseFee(_, _, _)
InsertByBaseFee(p, sorted, base_fee) ==
    IF sorted = <<>> THEN <<p>>
    ELSE IF base_fee[Head(sorted)] <= base_fee[p]
         THEN <<Head(sorted)>> \o InsertByBaseFee(p, Tail(sorted), base_fee)
         ELSE <<p>> \o sorted

RECURSIVE SortByBaseFee(_, _)
SortByBaseFee(n, base_fee) ==
    IF n = 0 THEN <<>>
    ELSE InsertByBaseFee(n, SortByBaseFee(n - 1, base_fee), base_fee)

\* A priority fee that takes the urgent percentile for every time_factor.
suggest_priority_fee_IgnoresTime(rewards, time_factor, p) ==
    IF rewards = <<>> THEN p.fallback_priority_fee
    ELSE LET index == ((Len(rewards) - 1) * p.max_block_percentile) \div 100
         IN  rewards[index + 1] + p.extra_priority_fee_boost

\* suggest_priority_fee: index = floor((len - 1) * factor), with
\* factor = (min + (max - min) / time_factor) / 100.
suggest_priority_fee(rewards, time_factor, p) ==
    IF rewards = <<>> THEN p.fallback_priority_fee
    ELSE LET index ==
                 ((Len(rewards) - 1)
                    * (p.min_block_percentile * time_factor
                        + (p.max_block_percentile - p.min_block_percentile)))
                 \div (100 * time_factor)
         IN  rewards[index + 1] + p.extra_priority_fee_boost

\* Whether the weight of the block at position pos (1 is the oldest, len the
\* pending block) alone reaches sample_max_percentile (30 %), so that
\* sampling_curve gives 1 for it.  The weight is
\*   (1 - q) * q^(len - pos) / (1 - q^len)   with q = e^(-1 / time_div):
\*   len = 2: pending >= 0.50; oldest 0.27 at time_div 1, >= 0.41 from 3 on;
\*   len = 3: pending >= 0.33; middle 0.24 at 1, >= 0.32 from 3 on;
\*            oldest 0.09, 0.23, 0.29 at 1, 3, 7, and >= 0.31 from 15 on.
\* For longer histories the model does not decide it.
Saturated(len, pos, time_div) ==
    \/ len <= 3 /\ pos = len
    \/ len = 2 /\ pos = 1 /\ time_div >= 3
    \/ len = 3 /\ pos = 2 /\ time_div >= 3
    \/ len = 3 /\ pos = 1 /\ time_div >= 15

\* A variant that answers the oldest base fee for time_div = 0.
predict_min_base_fee_Oldest(base_fee, order, time_div) ==
    IF time_div = 0 THEN {base_fee[1]}
    ELSE IF Saturated(Len(base_fee), order[1], time_div)
    THEN {base_fee[order[1]]}
    ELSE LET lo == base_fee[order[1]]
             hi == base_fee[order[Len(order)]]
         IN  {lo, hi}

\* predict_min_base_fee: the values it can return.  For time_div < 1e-6 it is
\* the last base fee.  Otherwise it is the sum of
\* (sampling_curve_value - sampling_curve_last) * base_fee[order_elem] up to
\* the first block at which the curve reaches 1: the lowest base fee when the
\* first block of the order is Saturated; if not, a value between the lowest
\* and the highest base fee that depends on cosines of the weights, of which
\* the model takes the two ends.
predict_min_base_fee(base_fee, order, time_div) ==
    IF time_div = 0 THEN {base_fee[Len(base_fee)]}
    ELSE IF Saturated(Len(base_fee), order[1], time_div)
    THEN {base_fee[order[1]]}
    ELSE LET lo == base_fee[order[1]]
             hi == base_fee[order[Len(order)]]
         IN  {lo, hi}

\* An extra fee that divides by the ratio.
extra_fee_Inverted(max_base_fee, min_base_fee) ==
    ((max_base_fee - min_base_fee) * params.extra_priority_fee_ratio.d)
        \div params.extra_priority_fee_ratio.n

\* (max_base_fee - min_base_fee) * params.extra_priority_fee_ratio
extra_fee(max_base_fee, min_base_fee) ==
    ((max_base_fee - min_base_fee) * params.extra_priority_fee_ratio.n)
        \div params.extra_priority_fee_ratio.d

\* An iteration that takes each window's own prediction.
Iteration_NoRunningMax(time_factor, max_base_fee, predicted, priority_fee, last_base_fee) ==
    [max_base_fee |-> predicted,
     entry |-> <<time_factor,
                 [legacy |-> 0,
                  eip1559 |-> Some(GasPrice1559(last_base_fee,
                                                predicted + priority_fee,
                                                priority_fee))]>>]

\* One iteration of the loop of suggest_fee, given what predict_min_base_fee
\* returned: the new max_base_fee and the entry pushed.
Iteration(time_factor, max_base_fee, predicted, priority_fee, last_base_fee) ==
    LET rises == predicted > max_base_fee
        extra == IF rises THEN 0 ELSE extra_fee(max_base_fee, predicted)
        min_base_fee == IF rises THEN predicted ELSE max_base_fee
    IN  [max_base_fee |-> min_base_fee,
         entry |-> <<time_factor,
                     [legacy |-> 0,
                      eip1559 |-> Some(GasPrice1559(last_base_fee,
                                                    min_base_fee + priority_fee,
                                                    priority_fee + extra))]>>]

\* A list left in the order of the loop.
Reverse_Not(s) == s

\* result.reverse()
RECURSIVE Reverse(_)
Reverse(s) == IF s = <<>> THEN <<>> ELSE Append(Reverse(Tail(s)), Head(s))

\* The entries of a vendor's estimate, and the snapshots BlockNative holds: a
\* first block with up to MaxEntries estimated prices, in wei, and possibly a
\* later block.  The vendor's fields
\* are stored as they come: among the entries is one whose
\* max_priority_fee_per_gas exceeds its max_fee_per_gas.
MaxEntries == 2
BnEntries ==
    {EstimatedPrice(99, 4, 2, 4), EstimatedPrice(90, 3, 1, 3),
     EstimatedPrice(70, 2, 1, 2), EstimatedPrice(90, 3, 4, 3)}
BnLaterBlocks ==
    {<<>>,
     <<[estimated_prices |-> <<EstimatedPrice(99, 9, 8, 9), EstimatedPrice(70, 8, 7, 8)>>,
        base_fee_per_gas |-> 7]>>}
BnSnapshots ==
    {[block_prices |-> <<>>]} \cup
    UNION {{[block_prices |->
                <<[estimated_prices |-> es, base_fee_per_gas |-> 1]>> \o later] :
                es \in SeqsOf(BnEntries, n), later \in BnLaterBlocks} : n \in 0..MaxEntries}

\* The ResponseData GasNowGasStation gets.
GnPrices == {1, 2}
GnSnapshots ==
    {ResponseData(rapid, fast, standard, slow) :
        rapid \in GnPrices, fast \in GnPrices, standard \in GnPrices, slow \in GnPrices}

\* The max_time_factor of the Params given to NativeGasEstimator::new: the
\* default, or 1 for a list of a single entry.
MaxTimeFactors == {1, params.max_time_factor}

\* What an estimator can be given.
Inputs ==
    {[kind |-> "Native", max_time_factor |-> tf, fee_history |-> fh, rewards |-> rw] :
        tf \in MaxTimeFactors, fh \in FeeHistories, rw \in RewardLists}
    \cup {[kind |-> "BlockNative", data |-> d] : d \in BnSnapshots}
    \cup {[kind |-> "GasNow", data |-> d] : d \in GnSnapshots}

\* The time limits estimates are asked for.
EstimateTimeLimits == {1, 3, 16, 20, 200}

outsideEstimate == <<now, refresherVars, wsVars, prVars, gnVars, gpVars, crVars,
                     fnVars>>

\* suggest_fee up to its loop: the length check, the pending block's base fee,
\* the carry-forward and the order.
NatPrepare ==
    /\ ex_in.kind = "Native"
    /\ nat_pc = "idle"
    /\ LET fee_history == ex_in.fee_history
           len == Len(fee_history.base_fee_per_gas)
       IN  IF len # Len(fee_history.gas_used_ratio) + 1
           THEN /\ nat_pc' = "failed"
                /\ UNCHANGED <<nat_fees, nat_time_factor>>
           ELSE LET base_fee ==
                        CarryForward(AdjustPending(fee_history.base_fee_per_gas),
                                     fee_history.gas_used_ratio, len - 1)
                IN  /\ nat_pc' = "loop"
                    /\ nat_fees' = [base_fee |-> base_fee,
                                    order |-> SortByBaseFee(len, base_fee)]
                    /\ nat_time_factor' = ex_in.max_time_factor
    /\ UNCHANGED <<nat_max_base_fee, nat_result, nat_cached, ex_in, ex_out,
                   outsideEstimate>>

\* One iteration of while time_factor >= 1.0.
NatIterate ==
    /\ nat_pc = "loop"
    /\ nat_time_factor >= 1
    /\ \E predicted \in predict_min_base_fee(nat_fees.base_fee, nat_fees.order,
                                             nat_time_factor - 1) :
          LET fee_history == ex_in.fee_history
              it == Iteration(
                        nat_time_factor, nat_max_base_fee, predicted,
                        suggest_priority_fee(ex_in.rewards, nat_time_factor, params),
                        fee_history.base_fee_per_gas[Len(fee_history.base_fee_per_gas)])
          IN  /\ nat_max_base_fee' = it.max_base_fee
              /\ nat_result' = Append(nat_result, it.entry)
    /\ nat_time_factor' = nat_time_factor \div 2
    /\ UNCHANGED <<nat_pc, nat_fees, nat_cached, ex_in, ex_out, outsideEstimate>>

\* The loop ends: result.reverse(); Ok(result).
NatReturn ==
    /\ nat_pc = "loop"
    /\ nat_time_factor < 1
    /\ nat_result' = Reverse(nat_result)
    /\ nat_pc' = "done"
    /\ UNCHANGED <<nat_fees, nat_time_factor, nat_max_base_fee, nat_cached, ex_in,
                   ex_out, outsideEstimate>>

\* NativeGasEstimator::new and its task store the list with its caps bumped.
NatStore ==
    /\ nat_pc = "done"
    /\ nat_cached' = BumpFees(nat_result)
    /\ nat_pc' = "stored"
    /\ UNCHANGED <<nat_fees, nat_time_factor, nat_max_base_fee, nat_result, ex_in,
                   ex_out, outsideEstimate>>

Estimate(time_limit, result) == [time_limit |-> time_limit, result |-> result]

\* estimate_with_limits of the native oracle on the list it has stored.
ExNativeEstimate(time_limit) ==
    /\ nat_pc = "stored"
    /\ ex_out = <<>>
    /\ ex_out' = Some(Estimate(time_limit,
                    Native_estimate_with_limits(
                        time_limit, [time |-> now, data |-> nat_cached], now)))
    /\ UNCHANGED <<ex_in, natVars, outsideEstimate>>

\* estimate_with_limits of BlockNative on the snapshot it holds.
ExBlockNativeEstimate(time_limit) ==
    /\ ex_in.kind = "BlockNative"
    /\ ex_out = <<>>
    /\ ex_out' = Some(Estimate(time_limit,
                    BN_estimate_with_limits(
                        time_limit, [time |-> now, data |-> ex_in.data], now)))
    /\ UNCHANGED <<ex_in, natVars, outsideEstimate>>

\* estimate_with_limits of GasNowGasStation on the response it got.
ExGasNowEstimate(time_limit) ==
    /\ ex_in.kind = "GasNow"
    /\ ex_out = <<>>
    /\ ex_out' = Some(Estimate(time_limit,
                    gasnow_estimate_with_limits(time_limit, ex_in.data)))
    /\ UNCHANGED <<ex_in, natVars, outsideEstimate>>

NextEstimate ==
    \/ NatPrepare
    \/ NatIterate
    \/ NatReturn
    \/ NatStore
    \/ \E time_limit \in EstimateTimeLimits : ExNativeEstimate(time_limit)
    \/ \E time_limit \in EstimateTimeLimits : ExBlockNativeEstimate(time_limit)
    \/ \E time_limit \in EstimateTimeLimits : ExGasNowEstimate(time_limit)

InitEstimate ==
    /\ now = 0 /\ RefresherIdle /\ WSIdle /\ PrIdle /\ GnIdle /\ GpIdle
    /\ CrIdle /\ FnIdle
    /\ ex_in \in Inputs
    /\ ex_out = <<>>
    /\ NatIdle

SpecEstimate == InitEstimate /\ [][NextEstimate]_vars

\* Every entry of a list of the native oracle has max_fee >= max_priority >= 0.
EntriesCoverTip(fees) ==
    \A i \in 1..Len(fees) :
        /\ tip(fees[i][2]) >= 0
        /\ cap(fees[i][2]) >= tip(fees[i][2])

\* The price an estimator returned has cap >= tip >= 0.
ReturnedCoversTip ==
    (IsSome(ex_out) /\ ex_out[1].result.tag = "Ok") =>
        /\ RLeq(RInt(0), tip(ex_out[1].result.price))
        /\ RLeq(tip(ex_out[1].result.price), cap(ex_out[1].result.price))

\* The vendor's response itself has max_fee >= max_priority >= 0 and prices
\* >= 0 in every entry.
UpstreamCoversTip ==
    /\ ex_in.kind = "BlockNative" =>
          \A b \in 1..Len(ex_in.data.block_prices) :
              \A i \in 1..Len(ex_in.data.block_prices[b].estimated_prices) :
                  LET e == ex_in.data.block_prices[b].estimated_prices[i]
                  IN  /\ e.price >= 0
                      /\ e.max_priority_fee_per_gas >= 0
                      /\ e.max_fee_per_gas >= e.max_priority_fee_per_gas
    /\ ex_in.kind = "GasNow" =>
          /\ ex_in.data.rapid >= 0 /\ ex_in.data.fast >= 0
          /\ ex_in.data.standard >= 0 /\ ex_in.data.slow >= 0

\* C18 as stated: every price an estimator returns has cap >= tip >= 0, and
\* every entry of the native oracle has max_fee >= max_priority >= 0.
C18_CapCoversTip ==
    /\ ReturnedCoversTip
    /\ EntriesCoverTip(nat_result)
    /\ EntriesCoverTip(nat_cached)

\* C18, amended: every entry the native oracle computes or stores and every
\* price it returns has max_fee >= max_priority >= 0; a price BlockNative or
\* GasNowGasStation returns has cap >= tip >= 0 when every entry of the
\* vendor's response has.
C18_CapCoversTipGivenUpstream ==
    /\ UpstreamCoversTip => ReturnedCoversTip
    /\ EntriesCoverTip(nat_result)
    /\ EntriesCoverTip(nat_cached)

\* The native oracle returned a price interpolated between two entries with
\* different priority fees, one of them with an extra fee for a price dip.
C18_Witness ==
    /\ ex_in.kind = "Native"
    /\ IsSome(ex_out)
    /\ ex_out[1].result.tag = "Ok"
    /\ ex_out[1].time_limit = 3
    /\ RLt(RInt(tip(nat_cached[3][2])), tip(ex_out[1].result.price))
    /\ RLt(tip(ex_out[1].result.price), RInt(tip(nat_cached[2][2])))
    /\ RLt(tip(ex_out[1].result.price), cap(ex_out[1].result.price))

\* Every entry of a list has max_fee >= base_fee.
EntriesCoverBaseFee(fees) ==
    \A i \in 1..Len(fees) :
        fees[i][2].eip1559[1].max_fee_per_gas >= fees[i][2].eip1559[1].base_fee_per_gas

\* The price the native oracle returned has max_fee >= base_fee.
ReturnedCoversBaseFee ==
    RLeq(ex_out[1].result.price.eip1559[1].base_fee_per_gas,
         ex_out[1].result.price.eip1559[1].max_fee_per_gas)

\* C19 as stated: every entry the native oracle stores and every price it
\* returns, for any time limit, has max_fee >= base_fee.
C19_FeeCoversBaseFee ==
    /\ EntriesCoverBaseFee(nat_cached)
    /\ (ex_in.kind = "Native" /\ IsSome(ex_out) /\ ex_out[1].result.tag = "Ok")
          => ReturnedCoversBaseFee

\* C19, amended: the stored entry for time factor 1, and so every price
\* returned for a time limit of at most 1 s, has max_fee >= base_fee, and all
\* entries carry the pending block's base fee.
C19_ShortestWindowCoversBaseFee ==
    /\ nat_cached # <<>> => EntriesCoverBaseFee(<<nat_cached[1]>>)
    /\ \A i \in 1..Len(nat_cached) :
          nat_cached[i][2].eip1559[1].base_fee_per_gas =
              ex_in.fee_history.base_fee_per_gas[Len(ex_in.fee_history.base_fee_per_gas)]
    /\ (ex_in.kind = "Native" /\ IsSome(ex_out) /\ ex_out[1].result.tag = "Ok"
            /\ ex_out[1].time_limit <= 1)
          => ReturnedCoversBaseFee

\* A list is stored whose first entry covers the base fee and whose last
\* entry does not, and the estimate for a time limit of 1 s was returned.
C19_Witness ==
    /\ ex_in.kind = "Native"
    /\ IsSome(ex_out)
    /\ ex_out[1].result.tag = "Ok"
    /\ ex_out[1].time_limit = 1
    /\ ReturnedCoversBaseFee
    /\ ~EntriesCoverBaseFee(<<nat_cached[Len(nat_cached)]>>)

(***************************************************************************)
(* C24, C25: the shape of the list suggest_fee returns.                    *)
(***************************************************************************)
\* The time factors of list are 1, 2, 4, ..., max_time_factor in this order.
PowersOfTwo(list) ==
    /\ Len(list) >= 1
    /\ list[1][1] = 1
    /\ list[Len(list)][1] = ex_in.max_time_factor
    /\ \A i \in 1..(Len(list) - 1) : list[i + 1][1] = 2 * list[i][1]

StrictlyIncreasing(list) ==
    \A i \in 1..Len(list), j \in 1..Len(list) : i < j => list[i][1] < list[j][1]

\* C24: the list suggest_fee returns, and the list stored from it, have the
\* time factors 1, 2, 4, ..., max_time_factor, smallest first and strictly
\* increasing: 8 entries with the default 128.
C24_TimeFactorsArePowersOfTwo ==
    /\ nat_pc \in {"done", "stored"} =>
          /\ PowersOfTwo(nat_result)
          /\ StrictlyIncreasing(nat_result)
          /\ ex_in.max_time_factor = 128 => Len(nat_result) = 8
    /\ nat_pc = "stored" =>
          /\ PowersOfTwo(nat_cached)
          /\ StrictlyIncreasing(nat_cached)
          /\ ex_in.max_time_factor = 128 => Len(nat_cached) = 8

\* A list has been stored: it starts at 1, continues with 2 and ends at 128.
C24_Witness ==
    /\ nat_pc = "stored"
    /\ Len(nat_cached) = 8
    /\ nat_cached[1][1] = 1
    /\ nat_cached[2][1] = 2
    /\ nat_cached[8][1] = 128

MaxFee(entry) == entry[2].eip1559[1].max_fee_per_gas

\* C25: max_base_fee never decreases from one iteration to the next, and in
\* the list returned and the list stored every entry's max_fee_per_gas is at
\* least that of every entry with a larger time factor.
C25_MaxFeeFallsWithTimeFactor ==
    /\ [](nat_pc \in {"done", "stored"} =>
            \A i \in 1..Len(nat_result), j \in 1..Len(nat_result) :
                nat_result[i][1] < nat_result[j][1] =>
                    MaxFee(nat_result[i]) >= MaxFee(nat_result[j]))
    /\ [](nat_pc = "stored" =>
            \A i \in 1..Len(nat_cached), j \in 1..Len(nat_cached) :
                nat_cached[i][1] < nat_cached[j][1] =>
                    MaxFee(nat_cached[i]) >= MaxFee(nat_cached[j]))
    /\ [][nat_pc = "loop" => nat_max_base_fee' >= nat_max_base_fee]_vars

\* A list has been stored in which the shortest window has a higher max_fee
\* than the longest, and in which the shortest window's own base fee
\* prediction was below the running maximum, so that it carries an extra
\* priority fee.
C25_Witness ==
    /\ nat_pc = "stored"
    /\ Len(nat_cached) = 8
    /\ MaxFee(nat_cached[1]) > MaxFee(nat_cached[8])
    /\ nat_cached[1][2].eip1559[1].max_priority_fee_per_gas
           > suggest_priority_fee(ex_in.rewards, 1, params)

(***************************************************************************)
(* C26, C27: what estimate_with_limits interpolates.                       *)
(***************************************************************************)
\* <<x, y>> lies on the line through the points p and q, between them.
OnSegment(x, y, p, q) ==
    /\ RLeq(p[1], x)
    /\ RLeq(x, q[1])
    /\ RMul(RSub(y, p[2]), RSub(q[1], p[1])) = RMul(RSub(q[2], p[2]), RSub(x, p[1]))

\* y is the value at x of the piecewise-linear curve through pts, continued
\* flat on both sides.
PiecewiseLinear(x, y, pts) ==
    IF RLeq(x, pts[1][1]) THEN y = pts[1][2]
    ELSE IF RLeq(pts[Len(pts)][1], x) THEN y = pts[Len(pts)][2]
    ELSE \E i \in 1..(Len(pts) - 1) :
            /\ RLt(pts[i][1], pts[i + 1][1])
            /\ OnSegment(x, y, pts[i], pts[i + 1])

NativePoints(field) ==
    [i \in 1..Len(nat_cached) |->
        <<RInt(nat_cached[i][1]), RInt(nat_cached[i][2].eip1559[1][field])>>]

\* C26: the native oracle's estimate_with_limits returns max_fee and
\* max_priority on the piecewise-linear curve through the stored entries
\* (x = time_factor, two entries or more) at x = time_limit: the first entry's
\* values up to the smallest time factor, the last entry's from the largest
\* on; base_fee_per_gas is the first entry's and legacy is 0.
C26_NativeInterpolates ==
    (ex_in.kind = "Native" /\ IsSome(ex_out) /\ Len(nat_cached) >= 2) =>
        LET x == RInt(ex_out[1].time_limit)
            result == ex_out[1].result
            g == result.price.eip1559[1]
        IN  /\ result.tag = "Ok"
            /\ result.price.legacy = RInt(0)
            /\ IsSome(result.price.eip1559)
            /\ PiecewiseLinear(x, g.max_fee_per_gas, NativePoints("max_fee_per_gas"))
            /\ PiecewiseLinear(x, g.max_priority_fee_per_gas,
                               NativePoints("max_priority_fee_per_gas"))
            /\ g.base_fee_per_gas
                   = RInt(nat_cached[1][2].eip1559[1].base_fee_per_gas)

\* An estimate for 3 s from a list whose entries for 2 and 4 differ in max_fee:
\* the result lies strictly between them.
C26_Witness ==
    /\ ex_in.kind = "Native"
    /\ IsSome(ex_out)
    /\ ex_out[1].time_limit = 3
    /\ ex_out[1].result.tag = "Ok"
    /\ MaxFee(nat_cached[2]) > MaxFee(nat_cached[3])
    /\ RLt(ex_out[1].result.price.eip1559[1].max_fee_per_gas,
           RInt(MaxFee(nat_cached[2])))
    /\ RLt(RInt(MaxFee(nat_cached[3])),
           ex_out[1].result.price.eip1559[1].max_fee_per_gas)

\* The anchor of a vendor's entry: 15 s / (confidence / 100).
Anchor(e) == Rat(BN_TIME_PER_BLOCK * 100, e.confidence)

\* The three amounts of a returned price, and of a vendor's entry.
PriceValues(p) ==
    <<p.legacy, p.eip1559[1].max_fee_per_gas, p.eip1559[1].max_priority_fee_per_gas>>
EntryValues(e) ==
    <<RInt(e.price), RInt(e.max_fee_per_gas), RInt(e.max_priority_fee_per_gas)>>

\* C27: BlockNative's estimate_with_limits reads the first block only, with the
\* anchor 15 s / (confidence / 100) for each of its entries: up to the smallest
\* anchor it returns the (price, max_fee, max_priority) of an entry of the
\* highest confidence, from the largest anchor on those of an entry of the
\* lowest confidence, and in between the values on the line between two
\* entries of neighbouring confidence that bracket the time limit;
\* base_fee_per_gas is the first block's.
C27_BlockNativeInterpolates ==
    (/\ ex_in.kind = "BlockNative"
     /\ IsSome(ex_out)
     /\ Len(ex_in.data.block_prices) >= 1
     /\ Len(ex_in.data.block_prices[1].estimated_prices) >= 2) =>
        LET block == ex_in.data.block_prices[1]
            entries == {block.estimated_prices[i] : i \in 1..Len(block.estimated_prices)}
            x == RInt(ex_out[1].time_limit)
            result == ex_out[1].result
            values == PriceValues(result.price)
            highest == {e \in entries : \A f \in entries : f.confidence <= e.confidence}
            lowest == {e \in entries : \A f \in entries : f.confidence >= e.confidence}
        IN  /\ result.tag = "Ok"
            /\ IsSome(result.price.eip1559)
            /\ result.price.eip1559[1].base_fee_per_gas = RInt(block.base_fee_per_gas)
            /\ IF \E e \in highest : RLeq(x, Anchor(e))
               THEN \E e \in highest : values = EntryValues(e)
               ELSE IF \E e \in lowest : RLeq(Anchor(e), x)
               THEN \E e \in lowest : values = EntryValues(e)
               ELSE \E e \in entries, f \in entries :
                       /\ e.confidence > f.confidence
                       /\ ~\E g \in entries :
                             g.confidence < e.confidence /\ g.confidence > f.confidence
                       /\ \A k \in 1..3 :
                             OnSegment(x, values[k],
                                       <<Anchor(e), EntryValues(e)[k]>>,
                                       <<Anchor(f), EntryValues(f)[k]>>)

\* An estimate for 16 s from a response of two blocks whose first block lists
\* the 90 % entry before the 99 % entry: the price lies strictly between the
\* two entries' prices.
C27_Witness ==
    /\ ex_in.kind = "BlockNative"
    /\ IsSome(ex_out)
    /\ ex_out[1].time_limit = 16
    /\ Len(ex_in.data.block_prices) = 2
    /\ ex_in.data.block_prices[1].estimated_prices
           = <<EstimatedPrice(90, 3, 1, 3), EstimatedPrice(99, 4, 2, 4)>>
    /\ ex_out[1].result.tag = "Ok"
    /\ RLt(RInt(3), ex_out[1].result.price.legacy)
    /\ RLt(ex_out[1].result.price.legacy, RInt(4))

(***************************************************************************)
(* C28: fewer than two anchor points.                                      *)
(***************************************************************************)
\* C28: estimate_with_limits answers the InvalidInput error, and no price, when
\* the first block BlockNative holds has no or one estimated price, and when
\* the list the native oracle holds has one entry.
C28_FewerThanTwoPoints ==
    IsSome(ex_out) =>
        /\ (/\ ex_in.kind = "BlockNative"
            /\ Len(ex_in.data.block_prices) >= 1
            /\ Len(ex_in.data.block_prices[1].estimated_prices) < 2)
              => ex_out[1].result = Err("InvalidInput")
        /\ (ex_in.kind = "Native" /\ Len(nat_cached) = 1)
              => ex_out[1].result = Err("InvalidInput")

\* The native oracle was asked with a list of one entry stored.
C28_Witness ==
    /\ ex_in.kind = "Native"
    /\ nat_pc = "stored"
    /\ Len(nat_cached) = 1
    /\ IsSome(ex_out)
    /\ ex_out[1].result.tag = "Err"

(***************************************************************************)
(* C29: BlockNative stores wei.                                            *)
(***************************************************************************)
\* data is the response with every price field multiplied by 1e9, once, and
\* every confidence as it was.
InWei(data, response) ==
    /\ Len(data.block_prices) = Len(response.block_prices)
    /\ \A b \in 1..Len(response.block_prices) :
          LET gwei == response.block_prices[b]
              wei == data.block_prices[b]
          IN  /\ wei.base_fee_per_gas = gwei.base_fee_per_gas * 1000000000
              /\ Len(wei.estimated_prices) = Len(gwei.estimated_prices)
              /\ \A i \in 1..Len(gwei.estimated_prices) :
                    LET e == gwei.estimated_prices[i]
                        f == wei.estimated_prices[i]
                    IN  /\ f.confidence = e.confidence
                        /\ f.price = e.price * 1000000000
                        /\ f.max_fee_per_gas = e.max_fee_per_gas * 1000000000
                        /\ f.max_priority_fee_per_gas
                               = e.max_priority_fee_per_gas * 1000000000

\* C29: what BlockNative's constructor and refresher store is the response
\* just fetched with price, max_fee_per_gas, max_priority_fee_per_gas and
\* base_fee_per_gas multiplied by 1e9 once and confidence unchanged, and what
\* a reader clones is such a snapshot.
C29_SnapshotsAreInWei ==
    /\ [](kind = "BlockNative" =>
            /\ \A w \in writes : \E response \in Upstream(kind) : InWei(w.data, response)
            /\ r_pc = "done" =>
                  \E response \in Upstream(kind) : InWei(r_clone.data, response))
    /\ [][kind = "BlockNative" =>
            \A response \in Upstream(kind) :
                /\ CtorFetchOk(response) => InWei(cached_response'.data, response)
                /\ TaskFetchOk(response) => InWei(t_new'.data, response)]_vars
    /\ [][(kind = "BlockNative" /\ t_pc = "writing" /\ t_pc' # "writing") =>
            cached_response'.data = t_new.data]_vars

\* A reader has cloned a snapshot of two entries that the refresher stored:
\* the vendor's price of 1 gwei reads 1e9.
C29_Witness ==
    /\ kind = "BlockNative"
    /\ r_pc = "done"
    /\ bg_ok
    /\ IsSome(initial)
    /\ r_clone # initial[1]
    /\ r_clone \in writes
    /\ Len(r_clone.data.block_prices) = 1
    /\ Len(r_clone.data.block_prices[1].estimated_prices) = 2
    /\ r_clone.data.block_prices[1].estimated_prices[1].confidence = 70
    /\ r_clone.data.block_prices[1].estimated_prices[1].price = 1000000000
    /\ r_clone.data.block_prices[1].base_fee_per_gas = 1000000000

(***************************************************************************)
(* C30: frames that are not updates.                                       *)
(***************************************************************************)
IsUpdate(message) == Payload(message) /\ message.json = "Update"
Updates == {m \in Messages : IsUpdate(m)}
NonUpdates == Messages \ Updates

\* C30: while streaming, a frame that is not a decodable update leaves the
\* snapshot as it is and does not end the connection: the loop waits for the
\* next frame with a new timeout.  A text or binary payload that does not
\* decode is reported as JsonDecodeFailed; other JSON and frames that are
\* neither text nor binary are reported as nothing.  The snapshot changes only
\* when a decodable update arrives.
C30_OnlyUpdatesChangeTheSnapshot ==
    [][/\ ws_pc = "streaming" =>
            \A message \in NonUpdates :
                WSMessage(message) =>
                    /\ ws_value' = ws_value
                    /\ ws_ended' = ws_ended
                    /\ ~is_closed =>
                          ws_pc' = "streaming" /\ ws_deadline' = now + max_update_age
                    /\ ws_report' = IF Payload(message) /\ message.json = "Invalid"
                                    THEN "JsonDecodeFailed"
                                    ELSE ""
       /\ ws_value' # ws_value =>
            \E message \in Updates :
                /\ WSMessage(message)
                /\ ws_value' = Some([instant |-> now, data |-> message.data])]_vars

\* With an update stored, a payload that does not decode has just been
\* reported, and the loop is waiting for the next frame.
C30_Witness ==
    /\ ws_pc = "streaming"
    /\ ws_report = "JsonDecodeFailed"
    /\ IsSome(ws_value)
    /\ ws_deadline = now + max_update_age
    /\ ws_rx > 0

(***************************************************************************)
(* Properties of the fee history suggest_fee works on (specification       *)
(* SpecEstimate).                                                          *)
(***************************************************************************)
\* The last position of a fee history's base fees: the pending block.
Pending == Len(ex_in.fee_history.base_fee_per_gas)

\* C31: in a refresh of the native oracle the pending block's base fee is
\* multiplied by 9/8 before the order is taken and predict_min_base_fee is
\* called: the adjusted pending base fee is 1.125 times the value the node
\* reported.
C31_PendingBaseFeeRaised ==
    (ex_in.kind = "Native" /\ nat_pc = "loop")
        => 8 * nat_fees.base_fee[Pending]
             = 9 * ex_in.fee_history.base_fee_per_gas[Pending]

(***************************************************************************)
(* nativegasestimator.rs: suggest_fee from the answer of eth_feeHistory to *)
(* the end of collect_rewards (specification SpecFeeHistory).  Positions   *)
(* of blocks are counted from 0, as in the code; first_block is 0.         *)
(***************************************************************************)
\* The longest window of gas used ratios collect_rewards walks.
MaxWindow == 7

\* usize::MAX.  usize is modelled 16 bits wide: wide enough for every length
\* and position of the model.
UsizeMax == 65535

\* A subtraction that is left out.
saturating_sub_Not(a, b) == a

\* a.saturating_sub(b)
saturating_sub(a, b) == IF a >= b THEN a - b ELSE 0

\* The gas used ratios of a short history, and those of a long window: an
\* empty block, blocks that are not full (0.9 is not), a full block.
HistoryRatios == {RInt(0), Rat(1, 2), Rat(9, 10), Rat(19, 20)}
WindowRatios == {RInt(0), Rat(9, 10), Rat(19, 20)}

\* What eth_feeHistory can answer: a short history of any base fees and
\* ratios, a frame whose two lists do not pair, a frame of no block, or a long
\* window of ratios.
HistoryFrames ==
    UNION {{[base_fee_per_gas |-> b, gas_used_ratio |-> r] :
                b \in SeqsOf(BaseFees, n + 1), r \in SeqsOf(HistoryRatios, n)} :
           n \in 0..MaxBlocks}
    \cup {[base_fee_per_gas |-> [i \in 1..bl |-> 8],
           gas_used_ratio |-> [i \in 1..rl |-> Rat(1, 2)]] :
             bl \in 0..MaxBlocks, rl \in 0..MaxBlocks}
    \cup UNION {{[base_fee_per_gas |-> [i \in 1..(n + 1) |-> 8], gas_used_ratio |-> r] :
                    r \in SeqsOf(WindowRatios, n)} :
                n \in (MaxBlocks + 1)..MaxWindow}

\* The result of a function that returns Result<usize>, or panics.
OkCount(n) == [tag |-> "Ok", value |-> n, err |-> ""]
ErrCount(e) == [tag |-> "Err", value |-> 0, err |-> e]
Panic == [tag |-> "Panic", value |-> 0, err |-> ""]

\* (i..end).take_while(|i| !(gas_used_ratio[last_index - i] == 0.0
\*     || gas_used_ratio[last_index - i] > 0.9)).count();
\* an index outside the slice panics.
RECURSIVE take_while_count(_, _, _, _)
take_while_count(gas_used_ratio, last_index, i, end) ==
    IF i >= end THEN OkCount(0)
    ELSE IF last_index - i < 0 \/ last_index - i >= Len(gas_used_ratio) THEN Panic
    ELSE IF ~(gas_used_ratio[last_index - i + 1] = RInt(0)
              \/ RLt(Rat(9, 10), gas_used_ratio[last_index - i + 1]))
    THEN LET rest == take_while_count(gas_used_ratio, last_index, i + 1, end)
         IN  IF rest.tag = "Ok" THEN OkCount(1 + rest.value) ELSE rest
    ELSE OkCount(0)

Min(a, b) == IF a <= b THEN a ELSE b

\* A count that stops at last_index + 1 blocks only.
max_block_count_UpToNeed(gas_used_ratio, last_index, need_blocks) ==
    IF ~(Len(gas_used_ratio) > last_index)
    THEN ErrCount("max_block_count invalid input")
    ELSE take_while_count(gas_used_ratio, last_index, 0, last_index + 1)

\* max_block_count
max_block_count(gas_used_ratio, last_index, need_blocks) ==
    IF ~(Len(gas_used_ratio) > last_index)
    THEN ErrCount("max_block_count invalid input")
    ELSE take_while_count(gas_used_ratio, last_index, 0,
                          Min(last_index + 1, need_blocks))

\* rewards.sort_unstable()
RECURSIVE InsertAscending(_, _)
InsertAscending(v, sorted) ==
    IF sorted = <<>> THEN <<v>>
    ELSE IF Head(sorted) <= v
         THEN <<Head(sorted)>> \o InsertAscending(v, Tail(sorted))
         ELSE <<v>> \o sorted

RECURSIVE sort_unstable(_)
sort_unstable(s) ==
    IF s = <<>> THEN <<>> ELSE InsertAscending(Head(s), sort_unstable(Tail(s)))

\* The row of reward percentiles the node has for a block: one reward for
\* each percentile from 0 to max_reward_percentile, some of them 0.
NodeReward(block) == <<block % 3, 10 - block>>

\* What the node answers to fee_history(block_count, newest, percentiles):
\* no reward field, or the rows of the blocks up to newest, or of the first
\* few of them only; or the call fails.
Rows(block_count, newest, k) ==
    [j \in 1..k |-> NodeReward(newest - block_count + j)]
RewardAnswers(block_count, newest) ==
    {[tag |-> "Err", reward |-> <<>>], [tag |-> "Ok", reward |-> <<>>]}
    \cup {[tag |-> "Ok", reward |-> Some(Rows(block_count, newest, k))] :
            k \in 0..block_count}

\* For every row of the answer: for i in 0..=max_reward_percentile, push
\* reward[i] if it is > 0.
RECURSIVE PushRows(_, _)
PushRows(rewards, rows) ==
    IF rows = <<>> THEN rewards
    ELSE PushRows(
            rewards \o SelectSeq(SubSeq(Head(rows), 1, params.max_reward_percentile + 1),
                                 LAMBDA reward : reward > 0),
            Tail(rows))

\* collect_rewards at a fee_history call, or after it returned.
At(pc, ptr, need_blocks, block_count, rewards) ==
    [pc |-> pc, ptr |-> ptr, need_blocks |-> need_blocks,
     block_count |-> block_count, rewards |-> rewards]

\* The loop is left: rewards.sort_unstable(); Ok(rewards).
Sorted(ptr, need_blocks, block_count, rewards) ==
    At("done", ptr, need_blocks, block_count, sort_unstable(rewards))

RECURSIVE Seek(_, _, _, _)

\* The end of an iteration of while need_blocks > 0, and the iterations after
\* it up to the next fee_history call:
\*   if ptr < block_count + 1 { break; }  ptr -= block_count + 1;
Advance(gas_used_ratio, ptr, need_blocks, block_count, rewards) ==
    IF ptr < block_count + 1 THEN Sorted(ptr, need_blocks, block_count, rewards)
    ELSE Seek(gas_used_ratio, ptr - (block_count + 1), need_blocks, rewards)

\* The loop from its condition to the next fee_history call, to its end, or to
\* the error of max_block_count.
Seek(gas_used_ratio, ptr, need_blocks, rewards) ==
    IF ~(need_blocks > 0) THEN Sorted(ptr, need_blocks, 0, rewards)
    ELSE LET counted == max_block_count(gas_used_ratio, ptr, need_blocks)
         IN  IF counted.tag = "Err" THEN At("failed", ptr, need_blocks, 0, rewards)
             ELSE IF counted.tag = "Panic"
             THEN At("panicked", ptr, need_blocks, 0, rewards)
             ELSE IF counted.value > 0
             THEN At("awaiting", ptr, need_blocks, counted.value, rewards)
             ELSE Advance(gas_used_ratio, ptr, need_blocks, 0, rewards)

outsideFeeHistory == <<now, refresherVars, wsVars, prVars, gnVars, gpVars, fnVars>>

\* collect_rewards is called with the gas used ratios of the history:
\* ptr = gas_used_ratio.len() - 1, which for an empty list panics in a build
\* with overflow checks and wraps to usize::MAX in one without;
\* need_blocks = 5.
CrCall ==
    /\ nat_pc = "loop"
    /\ cr.pc = "idle"
    /\ LET gas_used_ratio == ex_in.fee_history.gas_used_ratio
       IN  \/ /\ Len(gas_used_ratio) < 1
              /\ cr' = At("panicked", 0, 0, 0, <<>>)
           \/ cr' = Seek(gas_used_ratio,
                         IF Len(gas_used_ratio) >= 1
                         THEN Len(gas_used_ratio) - 1 ELSE UsizeMax,
                         5, <<>>)
    /\ UNCHANGED <<cr_asked, exVars, outsideFeeHistory>>

\* The fee_history call returns.
CrAnswer(answer) ==
    /\ cr.pc = "awaiting"
    /\ answer \in RewardAnswers(cr.block_count, cr.ptr)
    /\ cr_asked' = Append(cr_asked,
                          [newest |-> cr.ptr, block_count |-> cr.block_count,
                           answer |-> answer])
    /\ cr' =
         IF answer.tag = "Err"
         THEN At("failed", cr.ptr, cr.need_blocks, cr.block_count, cr.rewards)
         ELSE IF IsNone(answer.reward)
         THEN Sorted(cr.ptr, cr.need_blocks, cr.block_count, cr.rewards)
         ELSE LET fee_history_reward == answer.reward[1]
                  rewards == PushRows(cr.rewards, fee_history_reward)
              IN  IF Len(fee_history_reward) < cr.block_count
                  THEN Sorted(cr.ptr, cr.need_blocks, cr.block_count, rewards)
                  ELSE Advance(ex_in.fee_history.gas_used_ratio, cr.ptr,
                               saturating_sub(cr.need_blocks, cr.block_count),
                               cr.block_count, rewards)
    /\ UNCHANGED <<exVars, outsideFeeHistory>>

NextFeeHistory ==
    \/ NatPrepare
    \/ CrCall
    \/ \E answer \in RewardAnswers(cr.block_count, cr.ptr) : CrAnswer(answer)

InitFeeHistory ==
    /\ now = 0 /\ RefresherIdle /\ WSIdle /\ PrIdle /\ GnIdle /\ GpIdle
    /\ CrIdle /\ FnIdle
    /\ ex_in \in {[kind |-> "Native", max_time_factor |-> params.max_time_factor,
                   fee_history |-> fh] : fh \in HistoryFrames}
    /\ ex_out = <<>>
    /\ NatIdle

SpecFeeHistory == InitFeeHistory /\ [][NextFeeHistory]_vars

(***************************************************************************)
(* Properties of the fee history and of collect_rewards (specification     *)
(* SpecFeeHistory).                                                        *)
(***************************************************************************)
\* suggest_fee has passed its length check and taken the order.
Prepared == ex_in.kind = "Native" /\ nat_pc = "loop"

Reported == ex_in.fee_history.base_fee_per_gas
Ratios == ex_in.fee_history.gas_used_ratio
Full(i) == RLt(Rat(9, 10), Ratios[i])

\* The first position after i that is the pending block or a block that is
\* not full.
RECURSIVE NextNotFull(_)
NextNotFull(i) ==
    IF i + 1 > Len(Ratios) \/ ~Full(i + 1) THEN i + 1 ELSE NextNotFull(i + 1)

\* C32: after the carry-forward every block whose gas used ratio is above 0.9
\* has the adjusted base fee of its successor, so that a run of full blocks
\* has the base fee of the first later block that is not full, or of the
\* pending block; a block with ratio <= 0.9 keeps its own base fee; order is
\* a permutation of all positions, ascending by adjusted base fee.
C32_CarryForward ==
    Prepared =>
        LET base_fee == nat_fees.base_fee
            order == nat_fees.order
        IN  /\ Len(base_fee) = Len(Reported)
            /\ \A i \in 1..Len(Ratios) :
                  IF Full(i)
                  THEN /\ base_fee[i] = base_fee[i + 1]
                       /\ base_fee[i] = base_fee[NextNotFull(i)]
                       /\ NextNotFull(i) <= Len(Ratios)
                            => base_fee[i] = Reported[NextNotFull(i)]
                  ELSE base_fee[i] = Reported[i]
            /\ Len(order) = Len(base_fee)
            /\ {order[k] : k \in 1..Len(order)} = 1..Len(base_fee)
            /\ \A k \in 1..(Len(order) - 1) :
                  base_fee[order[k]] <= base_fee[order[k + 1]]

\* A history of a block at exactly 0.9 below a full block, each of a base fee
\* above the pending block's, has been carried forward: the full block has
\* the pending block's base fee and is first in the order.
C32_Witness ==
    /\ Prepared
    /\ Len(Ratios) = 2
    /\ Ratios[1] = Rat(9, 10) /\ Full(2)
    /\ Reported[1] > Reported[3] /\ Reported[2] > Reported[1]
    /\ nat_fees.base_fee = <<Reported[1], Reported[3], Reported[3]>>
    /\ nat_fees.order = <<2, 3, 1>>

\* The blocks a fee_history call of collect_rewards asks rewards for.
RequestedBlocks(newest, block_count) == (newest - block_count + 1)..newest

\* The calls collect_rewards has made, and the one it is making.
Requests ==
    {RequestedBlocks(cr_asked[k].newest, cr_asked[k].block_count) :
        k \in 1..Len(cr_asked)}
    \cup (IF cr.pc = "awaiting"
          THEN {RequestedBlocks(cr.ptr, cr.block_count)} ELSE {})

\* The blocks of the window with 0 < gas_used_ratio <= 0.9.
Qualifying ==
    {b \in 0..(Len(Ratios) - 1) :
        RLt(RInt(0), Ratios[b + 1]) /\ RLeq(Ratios[b + 1], Rat(9, 10))}

\* The n most recent of them.
MostRecent(n) == {b \in Qualifying : Cardinality({c \in Qualifying : c > b}) < n}

\* Every call so far was answered with a row for each block it asked for.
AnsweredInFull ==
    \A k \in 1..Len(cr_asked) :
        /\ cr_asked[k].answer.tag = "Ok"
        /\ IsSome(cr_asked[k].answer.reward)
        /\ Len(cr_asked[k].answer.reward[1]) = cr_asked[k].block_count

Sampled == UNION Requests

\* How often v is among the rewards, and among the node's rows of the sampled
\* blocks.
TimesReturned(v) == Cardinality({k \in 1..Len(cr.rewards) : cr.rewards[k] = v})
TimesSampled(v) ==
    Cardinality({<<b, i>> \in Sampled \X (1..(params.max_reward_percentile + 1)) :
                    NodeReward(b)[i] = v})

\* C33: collect_rewards asks reward percentiles only for blocks with
\* 0 < gas_used_ratio <= 0.9, for no block twice, and for at most 5 blocks in
\* all; when the node answers each call with a row for every block asked,
\* the blocks sampled are the 5 most recent qualifying blocks of the window
\* (all of them if fewer qualify) and the rewards returned are the positive
\* rewards of those blocks, ascending.
C33_RewardsOfRecentBlocks ==
    /\ \A blocks \in Requests : blocks # {} /\ blocks \subseteq Qualifying
    /\ \A r1 \in Requests, r2 \in Requests : r1 # r2 => r1 \cap r2 = {}
    /\ Len(cr_asked) + (IF cr.pc = "awaiting" THEN 1 ELSE 0) = Cardinality(Requests)
    /\ Cardinality(Sampled) <= 5
    /\ (cr.pc = "done" /\ AnsweredInFull) =>
          /\ Sampled = MostRecent(5)
          /\ \A k \in 1..Len(cr.rewards) : cr.rewards[k] > 0
          /\ \A k \in 1..(Len(cr.rewards) - 1) : cr.rewards[k] <= cr.rewards[k + 1]
          /\ \A v \in 1..10 : TimesReturned(v) = TimesSampled(v)
          /\ TimesSampled(0) > 0 => Len(cr.rewards) < 2 * Cardinality(Sampled)

\* collect_rewards has returned after two calls answered in full, in a window
\* that has more than 5 qualifying blocks, some of them older than a block
\* that does not qualify; some reward of the sampled blocks was 0.
C33_Witness ==
    /\ cr.pc = "done"
    /\ Len(cr_asked) = 2
    /\ AnsweredInFull
    /\ Cardinality(Qualifying) > 5
    /\ Cardinality(Sampled) = 5
    /\ TimesSampled(0) > 0
    /\ \E k \in 1..(Len(cr.rewards) - 1) : cr.rewards[k] < cr.rewards[k + 1]

(***************************************************************************)
(* nativegasestimator.rs: max_block_count, suggest_priority_fee and        *)
(* sampling_curve applied to arguments of their own (specification         *)
(* SpecNativeFns).                                                         *)
(***************************************************************************)
\* The longest list of gas used ratios max_block_count is given.
MaxRatios == 3

\* The values cos(2 * PI * t) can have for 0 <= t <= 1: the exact one at a
\* point where it is rational (the table); between two such points, where the
\* cosine is monotone and not rational, the model takes the values at both.
cos(t) ==
    LET table ==
            <<<<RInt(0), RInt(1)>>, <<Rat(1, 6), Rat(1, 2)>>, <<Rat(1, 4), RInt(0)>>,
              <<Rat(1, 3), Rat(-1, 2)>>, <<Rat(1, 2), RInt(-1)>>,
              <<Rat(2, 3), Rat(-1, 2)>>, <<Rat(3, 4), RInt(0)>>,
              <<Rat(5, 6), Rat(1, 2)>>, <<RInt(1), RInt(1)>>>>
    IN  IF \E k \in 1..Len(table) : table[k][1] = t
        THEN {table[k][2] : k \in {j \in 1..Len(table) : table[j][1] = t}}
        ELSE UNION {{table[k][2], table[k + 1][2]} :
                      k \in {j \in 1..(Len(table) - 1) :
                                RLt(table[j][1], t) /\ RLt(t, table[j + 1][1])}}

\* A curve that does not clamp at the two ends of the range themselves.
sampling_curve_OpenEnds(percentile, p) ==
    LET min == RInt(p.sample_min_percentile)
        max == RInt(p.sample_max_percentile)
    IN  IF RLt(percentile, min) THEN {RInt(0)}
        ELSE IF RLt(max, percentile) \/ min = max THEN {RInt(1)}
        ELSE {RDiv(RSub(RInt(1), c), RInt(2)) :
                c \in cos(RDiv(RSub(percentile, min), RSub(max, min)))}

\* A curve over half a period of the cosine.
sampling_curve_HalfPeriod(percentile, p) ==
    LET min == RInt(p.sample_min_percentile)
        max == RInt(p.sample_max_percentile)
    IN  IF RLeq(percentile, min) THEN {RInt(0)}
        ELSE IF RLeq(max, percentile) THEN {RInt(1)}
        ELSE {RDiv(RSub(RInt(1), c), RInt(2)) :
                c \in cos(RDiv(RSub(percentile, min),
                               RMul(RInt(2), RSub(max, min))))}

\* sampling_curve: the values it can return.
sampling_curve(percentile, p) ==
    LET min == RInt(p.sample_min_percentile)
        max == RInt(p.sample_max_percentile)
    IN  IF RLeq(percentile, min) THEN {RInt(0)}
        ELSE IF RLeq(max, percentile) THEN {RInt(1)}
        ELSE {RDiv(RSub(RInt(1), c), RInt(2)) :
                c \in cos(RDiv(RSub(percentile, min), RSub(max, min)))}

\* Arguments of max_block_count: a list of ratios, a position in it or past
\* its end, and a number of blocks still needed.
MaxBlockCountInputs ==
    UNION {{[fn |-> "max_block_count", gas_used_ratio |-> r, last_index |-> l,
             need_blocks |-> nb] :
                r \in SeqsOf(HistoryRatios, n), l \in 0..(MaxRatios + 1), nb \in 0..5} :
           n \in 0..MaxRatios}

\* Arguments of suggest_priority_fee but for time_factor: rewards as
\* collect_rewards returns them, and the two block percentiles of Params.
BlockPercentiles == {0, 30, 50, 60, 100}
SuggestPriorityFeeInputs ==
    {[fn |-> "suggest_priority_fee", rewards |-> rw,
      min_block_percentile |-> range[1], max_block_percentile |-> range[2]] :
        rw \in RewardLists \cup {<<2, 3, 3, 4, 6>>, <<1, 2, 3, 4, 5, 6, 7, 8, 9, 10>>},
        range \in {r \in BlockPercentiles \X BlockPercentiles : r[1] <= r[2]}}
TimeFactors == {1, 2, 4, 8, 16, 128}

\* Arguments of sampling_curve: a sampled range of Params, and a percentile
\* below it, above it, at one of its ends or at some twelfth of it.
SampledRanges == {<<10, 30>>, <<0, 12>>, <<20, 20>>, <<30, 10>>}
SamplingCurveInputs ==
    UNION {{[fn |-> "sampling_curve", sample_min_percentile |-> range[1],
             sample_max_percentile |-> range[2], percentile |-> pc] :
                pc \in {RInt(0), RInt(100)}
                       \cup {RAdd(RInt(range[1]), Rat(k * (range[2] - range[1]), 12)) :
                               k \in 0..12}} :
           range \in SampledRanges}

outsideNativeFns == <<now, refresherVars, wsVars, prVars, gnVars, exVars, gpVars,
                      crVars>>

\* A call of a function: its time_factor, if it has one, and what it returned.
Called(time_factor, value) == [time_factor |-> time_factor, value |-> value]

FnMaxBlockCount ==
    /\ fn_in.fn = "max_block_count"
    /\ fn_out = <<>>
    /\ fn_out' = <<Called(0, max_block_count(fn_in.gas_used_ratio, fn_in.last_index,
                                             fn_in.need_blocks))>>
    /\ UNCHANGED <<fn_in, outsideNativeFns>>

\* suggest_priority_fee is called for a time_factor, and once more.
FnSuggestPriorityFee(time_factor) ==
    /\ fn_in.fn = "suggest_priority_fee"
    /\ Len(fn_out) < 2
    /\ fn_out' = Append(fn_out,
            Called(time_factor,
                   suggest_priority_fee(
                       fn_in.rewards, time_factor,
                       [params EXCEPT
                          !.min_block_percentile = fn_in.min_block_percentile,
                          !.max_block_percentile = fn_in.max_block_percentile])))
    /\ UNCHANGED <<fn_in, outsideNativeFns>>

FnSamplingCurve ==
    /\ fn_in.fn = "sampling_curve"
    /\ fn_out = <<>>
    /\ \E value \in sampling_curve(
                        fn_in.percentile,
                        [params EXCEPT
                           !.sample_min_percentile = fn_in.sample_min_percentile,
                           !.sample_max_percentile = fn_in.sample_max_percentile]) :
          fn_out' = <<Called(0, value)>>
    /\ UNCHANGED <<fn_in, outsideNativeFns>>

NextNativeFns ==
    \/ FnMaxBlockCount
    \/ \E time_factor \in TimeFactors : FnSuggestPriorityFee(time_factor)
    \/ FnSamplingCurve

InitNativeFns ==
    /\ now = 0 /\ RefresherIdle /\ WSIdle /\ PrIdle /\ GnIdle /\ ExIdle /\ GpIdle
    /\ CrIdle
    /\ fn_in \in MaxBlockCountInputs \cup SuggestPriorityFeeInputs
                    \cup SamplingCurveInputs
    /\ fn_out = <<>>

SpecNativeFns == InitNativeFns /\ [][NextNativeFns]_vars

(***************************************************************************)
(* Properties of the functions of nativegasestimator.rs (specification     *)
(* SpecNativeFns).                                                         *)
(***************************************************************************)
Returned(fn) == fn_in.fn = fn /\ fn_out # <<>>

\* The n blocks ending at last_index all have a ratio that is neither 0 nor
\* above 0.9.
IsRun(gas_used_ratio, last_index, n) ==
    \A i \in 0..(n - 1) :
        /\ gas_used_ratio[last_index - i + 1] # RInt(0)
        /\ RLeq(gas_used_ratio[last_index - i + 1], Rat(9, 10))

\* C34: max_block_count(ratios, last_index, need_blocks) is the length of the
\* longest run of consecutive blocks ending at last_index, going backward,
\* whose ratio is neither 0 nor above 0.9, capped at
\* min(last_index + 1, need_blocks); for last_index >= len(ratios) it is the
\* error "max_block_count invalid input"; it never indexes out of bounds.
C34_MaxBlockCount ==
    Returned("max_block_count") =>
        LET ratios == fn_in.gas_used_ratio
            last_index == fn_in.last_index
            limit == IF last_index + 1 <= fn_in.need_blocks
                     THEN last_index + 1 ELSE fn_in.need_blocks
            result == fn_out[1].value
        IN  /\ result.tag # "Panic"
            /\ IF last_index >= Len(ratios)
               THEN result.tag = "Err" /\ result.err = "max_block_count invalid input"
               ELSE /\ result.tag = "Ok"
                    /\ result.value \in 0..limit
                    /\ IsRun(ratios, last_index, result.value)
                    /\ \A n \in (result.value + 1)..limit :
                          ~IsRun(ratios, last_index, n)

\* A run of three suitable blocks ends at last_index and two blocks are
\* needed: the count is 2.
C34_Witness ==
    /\ Returned("max_block_count")
    /\ fn_in.last_index = 2 /\ fn_in.need_blocks = 2
    /\ Len(fn_in.gas_used_ratio) = 3
    /\ IsRun(fn_in.gas_used_ratio, 2, 3)
    /\ fn_out[1].value = OkCount(2)

\* f = (min_block_percentile
\*        + (max_block_percentile - min_block_percentile) / time_factor) / 100
BlockFactor(time_factor) ==
    RDiv(RAdd(RInt(fn_in.min_block_percentile),
              RDiv(RInt(fn_in.max_block_percentile - fn_in.min_block_percentile),
                   RInt(time_factor))),
         RInt(100))

\* floor((len - 1) * f)
RewardIndex(time_factor) ==
    RFloor(RMul(RInt(Len(fn_in.rewards) - 1), BlockFactor(time_factor))).n

\* C35: suggest_priority_fee returns fallback_priority_fee for empty rewards;
\* for ascending rewards that are not empty it returns
\* rewards[floor((len - 1) * f)] + extra_priority_fee_boost; for
\* time_factor >= 1 and 0 <= min <= max <= 100 the index is within the
\* rewards, and it does not rise as time_factor grows.
C35_PriorityFeeByPercentile ==
    fn_in.fn = "suggest_priority_fee" =>
        /\ \A k \in 1..Len(fn_out) :
              IF fn_in.rewards = <<>>
              THEN fn_out[k].value = params.fallback_priority_fee
              ELSE LET index == RewardIndex(fn_out[k].time_factor)
                   IN  /\ index \in 0..(Len(fn_in.rewards) - 1)
                       /\ fn_out[k].value
                            = fn_in.rewards[index + 1] + params.extra_priority_fee_boost
        /\ \A j \in 1..Len(fn_out), k \in 1..Len(fn_out) :
              (fn_in.rewards # <<>> /\ fn_out[j].time_factor <= fn_out[k].time_factor)
                  => /\ RewardIndex(fn_out[j].time_factor)
                          >= RewardIndex(fn_out[k].time_factor)
                     /\ fn_out[j].value >= fn_out[k].value

\* With the default percentiles and ten rewards 1..10, the call for
\* time_factor 1 took the reward at index 5 and the call for 128 the one at
\* index 2.
C35_Witness ==
    /\ fn_in.fn = "suggest_priority_fee"
    /\ Len(fn_in.rewards) = 10
    /\ fn_in.min_block_percentile = 30 /\ fn_in.max_block_percentile = 60
    /\ fn_out = <<Called(1, 6 + params.extra_priority_fee_boost),
                  Called(128, 3 + params.extra_priority_fee_boost)>>

\* The arguments of a call of sampling_curve and what it returned.
Percentile == fn_in.percentile
SampleMin == RInt(fn_in.sample_min_percentile)
SampleMax == RInt(fn_in.sample_max_percentile)
CurveValue == fn_out[1].value
InUnitInterval(v) == RLeq(RInt(0), v) /\ RLeq(v, RInt(1))

\* C36: sampling_curve clamps outside the sampled range: for every percentile
\* p <= sample_min_percentile it returns exactly 0 and for every
\* p >= sample_max_percentile exactly 1; for p in between the result lies in
\* [0, 1].
C36_CurveClamps ==
    Returned("sampling_curve") =>
        /\ RLeq(Percentile, SampleMin) => CurveValue = RInt(0)
        /\ RLeq(SampleMax, Percentile) => CurveValue = RInt(1)
        /\ InUnitInterval(CurveValue)

\* C36, amended: for every p <= sample_min_percentile sampling_curve returns
\* exactly 0, and for every p >= sample_max_percentile that is above
\* sample_min_percentile exactly 1 (that is every p >= sample_max_percentile
\* when sample_min_percentile < sample_max_percentile); for p in between the
\* result lies in [0, 1].
C36_CurveClampsAboveMin ==
    Returned("sampling_curve") =>
        /\ RLeq(Percentile, SampleMin) => CurveValue = RInt(0)
        /\ (RLeq(SampleMax, Percentile) /\ RLt(SampleMin, Percentile))
              => CurveValue = RInt(1)
        /\ InUnitInterval(CurveValue)

\* With the default range the curve has returned 1 at its upper end, p = 30.
C36_Witness ==
    /\ Returned("sampling_curve")
    /\ SampleMin = RInt(10) /\ SampleMax = RInt(30)
    /\ Percentile = RInt(30)
    /\ CurveValue = RInt(1)

\* MIN + (MAX - MIN) * k / 4
QuarterPoint(k) ==
    RAdd(SampleMin, RDiv(RMul(RInt(k), RSub(SampleMax, SampleMin)), RInt(4)))

\* C37: sampling_curve at the midpoint of the sampled range equals 0.5:
\* sampling_curve((MIN + MAX) / 2) = 0.5 (with the defaults 10 and 30, the
\* value at p = 20).
C37_HalfAtMidpoint ==
    (Returned("sampling_curve") /\ Percentile = RDiv(RAdd(SampleMin, SampleMax), RInt(2)))
        => CurveValue = Rat(1, 2)

\* C37, amended: for MIN < MAX sampling_curve at the midpoint of the sampled
\* range equals 1, and it equals 0.5 at the quarter of the range,
\* MIN + (MAX - MIN) / 4, and at three quarters of it (with the defaults 10
\* and 30: 1 at p = 20, 0.5 at p = 15 and at p = 25).
C37_OneAtMidpoint ==
    (Returned("sampling_curve") /\ RLt(SampleMin, SampleMax)) =>
        /\ Percentile = QuarterPoint(2) => CurveValue = RInt(1)
        /\ Percentile \in {QuarterPoint(1), QuarterPoint(3)} => CurveValue = Rat(1, 2)

\* With the default range the curve has returned 1 at p = 20.
C37_Witness ==
    /\ Returned("sampling_curve")
    /\ SampleMin = RInt(10) /\ SampleMax = RInt(30)
    /\ Percentile = RInt(20)
    /\ CurveValue = RInt(1)

(***************************************************************************)
(* C38: the order of the vendor's entries (specification SpecEstimate).    *)
(***************************************************************************)
\* The orders in which n entries can be listed.
Orders(n) == {p \in [1..n -> 1..n] : \A i \in 1..n, j \in 1..n : i # j => p[i] # p[j]}

\* The snapshot BlockNative holds, with the entries of its first block listed
\* in another order.
Reordered(data, p) ==
    [data EXCEPT !.block_prices[1].estimated_prices =
        [i \in 1..Len(@) |-> @[p[i]]]]

\* C38: BlockNative's estimate does not depend on the order in which the
\* vendor lists the entries of the first block: for entries of distinct
\* positive confidences every order of them gives the same result, because
\* they are sorted by descending confidence, so that the anchors
\* 15 / (confidence / 100) handed to the interpolation ascend.
C38_VendorOrderIsIrrelevant ==
    (/\ ex_in.kind = "BlockNative"
     /\ IsSome(ex_out)
     /\ Len(ex_in.data.block_prices) >= 1) =>
        LET es == ex_in.data.block_prices[1].estimated_prices
            n == Len(es)
            sorted == SortByConfidenceDesc(es)
        IN  (\A i \in 1..n, j \in 1..n :
                es[i].confidence > 0 /\ (i # j => es[i].confidence # es[j].confidence))
            => /\ \A p \in Orders(n) :
                     BN_estimate_with_limits(
                         ex_out[1].time_limit,
                         [time |-> now, data |-> Reordered(ex_in.data, p)], now)
                       = ex_out[1].result
               /\ \A i \in 1..(n - 1) : RLt(Anchor(sorted[i]), Anchor(sorted[i + 1]))

\* An estimate for 20 s from a first block that lists the 70 % entry before
\* the 99 % entry: the price lies strictly between the two entries' prices.
C38_Witness ==
    /\ ex_in.kind = "BlockNative"
    /\ IsSome(ex_out)
    /\ ex_out[1].time_limit = 20
    /\ Len(ex_in.data.block_prices) >= 1
    /\ ex_in.data.block_prices[1].estimated_prices
           = <<EstimatedPrice(70, 2, 1, 2), EstimatedPrice(99, 4, 2, 4)>>
    /\ ex_out[1].result.tag = "Ok"
    /\ RLt(RInt(2), ex_out[1].result.price.legacy)
    /\ RLt(ex_out[1].result.price.legacy, RInt(4))

(***************************************************************************)
(* C39: the WebSocket snapshot is kept (specification SpecWS).             *)
(***************************************************************************)
\* C39: once the snapshot of the WebSocket station holds an update it never
\* becomes empty again: a step in which the task leaves its position (a
\* connect failure or timeout, a stream error, timeout or close, a connect, a
\* reconnect, the exit) leaves the stored (instant, data) in place, every
\* write stores Some(update), and the stored instants do not decrease.
C39_SnapshotIsKept ==
    [][/\ IsSome(ws_value) => IsSome(ws_value')
       /\ ws_pc' # ws_pc => ws_value' = ws_value
       /\ ws_value' # ws_value =>
            /\ IsSome(ws_value')
            /\ ws_value'[1].instant = now
            /\ IsSome(ws_value) => ws_value'[1].instant >= ws_value[1].instant]_vars

\* The stream failed after an update was stored: the task waits to reconnect
\* and the update is still in the channel.
C39_Witness ==
    /\ ws_pc = "waiting"
    /\ IsSome(ws_value)
    /\ IsSome(ws_ended)
    /\ ws_ended[1].by = "StreamFailure"
    /\ ws_ended[1].at > ws_value[1].instant

(***************************************************************************)
(* C40: fee history frames that are not well formed (specification         *)
(* SpecFeeHistory).                                                        *)
(***************************************************************************)
\* The frame eth_feeHistory answered is one of: base_fee_per_gas and
\* gas_used_ratio of lengths that do not differ by exactly one, an empty
\* base_fee_per_gas, an empty gas_used_ratio with a single base fee.
Malformed ==
    \/ Len(Reported) # Len(Ratios) + 1
    \/ Reported = <<>>
    \/ Ratios = <<>> /\ Len(Reported) = 1

\* C40: for every such frame suggest_fee fails with an error: it returns no
\* rewards and no list, and it never panics, underflows or indexes out of
\* bounds.
C40_MalformedFrameFails ==
    (ex_in.kind = "Native" /\ Malformed) =>
        /\ nat_pc \in {"idle", "failed"} \/ cr.pc \in {"idle", "failed"}
        /\ cr.pc # "panicked"
        /\ cr.ptr <= Len(Ratios)

====
